---- MODULE Spec2Model ----
(***************************************************************************)
(* Model of the natural-language candidate search pipeline:                *)
(*   scripts/core/query_parser.py        GeminiQueryParser                 *)
(*   scripts/core/intelligent_search.py  IntelligentSearchEngine           *)
(*   scripts/core/gemini_embedder_prod.py GeminiEmbedder                   *)
(*   scripts/core/match_explainer.py     MatchExplainer                    *)
(* Python strings are TLA+ strings, Python dicts are functions whose       *)
(* DOMAIN is the set of keys, JSON values are tagged records.  Scores are  *)
(* exact rationals on a decimal grid (IEEE rounding is outside the model). *)
(***************************************************************************)
EXTENDS Integers, Sequences, FiniteSets, TLC

VARIABLES
    \* ---- GeminiQueryParser.parse ----
    pc,             \* position of the parse call: idle, gemini, openai, done
    natural_query,  \* argument of parse
    openai_client,  \* TRUE iff OPENAI_API_KEY was set at construction
    now,            \* datetime.now() as epoch seconds
    calls,          \* external backend calls made by this parse call, in order
    handler,        \* except clause that caught the primary failure
    primary_failure,\* why the primary attempt failed ("none" if it did not)
    secondary_failure,
    result,         \* value returned by parse (NoResult until it returns)
    raised,         \* TRUE iff parse let an exception escape
    \* ---- IntelligentSearchEngine.search ----
    spc,            \* position of the search call
    parsed_query,   \* argument of search
    limit,
    enable_reranking,
    facet_results,  \* per facet, the list returned by client.search
    all_results,    \* merge dictionary, in insertion order
    returned,       \* list returned by search
    embed_calls,    \* texts sent to embed_content by this search call
    embed_failed,   \* TRUE iff embed_content raised
    query_vector,   \* the embedding of search_intent
    query_filter,   \* the predicate _build_filter compiled
    store_calls,    \* client.search calls made by this search call, in order
    facet_failed,   \* facet whose client.search raised ("none" if none did)
    search_raised,  \* TRUE iff search let an exception escape
    \* ---- IntelligentSearchEngine._calculate_skills_match ----
    sm_candidate_skills,
    sm_required_skills,
    sm_score,       \* value returned (NoResult until it returns)
    \* ---- IntelligentSearchEngine._build_filter ----
    bf_filters,     \* argument of _build_filter
    bf_result,      \* its outcome (NoResult until it returns)
    \* ---- GeminiEmbedder.embed_single ----
    max_retries,    \* config.max_retries
    es_pc,          \* position of the embed_single call
    es_text,        \* argument text
    es_use_fallback,\* argument use_fallback_on_error
    es_sent,        \* the local `text` after the length cap
    es_attempt,     \* loop variable attempt
    es_calls,       \* calls to the service and to the fallback, in order
    es_sleeps,      \* time.sleep arguments, in order
    es_result,      \* value returned (NoResult until it returns)
    fallback_active,
    \* ---- MatchExplainer.explain ----
    ex_candidate,   \* the candidate dict passed to explain
    ex_parsed_query,\* the parsed query dict passed to explain
    ex_outputs,     \* outcomes of the explain calls made so far
    \* ---- GeminiQueryParser._process_parsed_filters on a date ----
    rd_expr,        \* the application_date expression and how it was built
    rd_clock,       \* datetime.now() of the call, epoch seconds
    rd_outcome,     \* what the call left in filters (NoResult until it returns)
    \* ---- search_api.search_candidates ----
    api_request,    \* the SearchRequest of the call
    api_response,   \* what the handler returned or raised (NoResult before)
    \* ---- two search_candidates calls in flight ----
    cc_calls,       \* per call: position, request, locals, answers received
    cc_results      \* per frame: the all_results dictionary it holds

parserVars == <<pc, natural_query, openai_client, now, calls, handler,
                primary_failure, secondary_failure, result, raised>>
searchVars == <<spc, parsed_query, limit, enable_reranking, facet_results,
                all_results, returned, embed_calls, embed_failed,
                query_vector, query_filter, store_calls, facet_failed,
                search_raised>>
skillsVars == <<sm_candidate_skills, sm_required_skills, sm_score>>
filterVars == <<bf_filters, bf_result>>
embedderVars == <<max_retries, es_pc, es_text, es_use_fallback, es_sent,
                  es_attempt, es_calls, es_sleeps, es_result, fallback_active>>
explainVars == <<ex_candidate, ex_parsed_query, ex_outputs>>
datesVars == <<rd_expr, rd_clock, rd_outcome>>
apiVars == <<api_request, api_response>>
concurrentVars == <<cc_calls, cc_results>>
furtherVars == <<datesVars, apiVars, concurrentVars>>
utilityVars == <<skillsVars, filterVars, embedderVars, explainVars, furtherVars>>
vars == <<parserVars, searchVars, utilityVars>>

-----------------------------------------------------------------------------
(* Python str operations *)

Char(s, i) == SubSeq(s, i, i)

LowerChar(c) ==
    CASE c = "A" -> "a" [] c = "B" -> "b" [] c = "C" -> "c" [] c = "D" -> "d"
      [] c = "E" -> "e" [] c = "F" -> "f" [] c = "G" -> "g" [] c = "H" -> "h"
      [] c = "I" -> "i" [] c = "J" -> "j" [] c = "K" -> "k" [] c = "L" -> "l"
      [] c = "M" -> "m" [] c = "N" -> "n" [] c = "O" -> "o" [] c = "P" -> "p"
      [] c = "Q" -> "q" [] c = "R" -> "r" [] c = "S" -> "s" [] c = "T" -> "t"
      [] c = "U" -> "u" [] c = "V" -> "v" [] c = "W" -> "w" [] c = "X" -> "x"
      [] c = "Y" -> "y" [] c = "Z" -> "z" [] OTHER -> c

RECURSIVE Lower(_)
Lower(s) ==
    IF Len(s) = 0 THEN ""
    ELSE LowerChar(Char(s, 1)) \o Lower(SubSeq(s, 2, Len(s)))

\* Python's `needle in hay` for two strings
Contains(hay, needle) ==
    \E i \in 1..(Len(hay) - Len(needle) + 1) :
        SubSeq(hay, i, i + Len(needle) - 1) = needle

IsDigit(c) == c \in {"0", "1", "2", "3", "4", "5", "6", "7", "8", "9"}

DigitVal(c) ==
    CASE c = "0" -> 0 [] c = "1" -> 1 [] c = "2" -> 2 [] c = "3" -> 3
      [] c = "4" -> 4 [] c = "5" -> 5 [] c = "6" -> 6 [] c = "7" -> 7
      [] c = "8" -> 8 [] c = "9" -> 9

\* ''.join(filter(str.isdigit, s))
RECURSIVE FilterDigits(_)
FilterDigits(s) ==
    IF Len(s) = 0 THEN ""
    ELSE (IF IsDigit(Char(s, 1)) THEN Char(s, 1) ELSE "")
         \o FilterDigits(SubSeq(s, 2, Len(s)))

AllDigits(s) == \A i \in 1..Len(s) : IsDigit(Char(s, i))

\* int(s) for a string of decimal digits (the caller checks Len(s) > 0)
RECURSIVE DigitsToInt(_)
DigitsToInt(s) ==
    IF Len(s) = 0 THEN 0
    ELSE 10 * DigitsToInt(SubSeq(s, 1, Len(s) - 1)) + DigitVal(Char(s, Len(s)))

\* position of the first occurrence of the one-character string c, 0 if none
FindChar(s, c) ==
    IF \E i \in 1..Len(s) : Char(s, i) = c
    THEN CHOOSE i \in 1..Len(s) :
            Char(s, i) = c /\ \A j \in 1..(i - 1) : Char(s, j) # c
    ELSE 0

\* s.split(c)
RECURSIVE Split(_, _)
Split(s, c) ==
    LET p == FindChar(s, c) IN
    IF p = 0 THEN <<s>>
    ELSE <<SubSeq(s, 1, p - 1)>> \o Split(SubSeq(s, p + 1, Len(s)), c)

-----------------------------------------------------------------------------
(* JSON values as json.loads produces them *)

JNull      == [t |-> "null"]
JBool(b)   == [t |-> "bool", b |-> b]
JNum(n)    == [t |-> "num", n |-> n]
JStr(s)    == [t |-> "str", s |-> s]
JList(l)   == [t |-> "list", l |-> l]
JObj(o)    == [t |-> "obj", o |-> o]

\* Python truthiness
Truthy(v) ==
    CASE v.t = "null" -> FALSE
      [] v.t = "bool" -> v.b
      [] v.t = "num"  -> v.n # 0
      [] v.t = "str"  -> Len(v.s) > 0
      [] v.t = "list" -> Len(v.l) > 0
      [] v.t = "obj"  -> DOMAIN v.o # {}

\* dict.get(k): None for a missing key
DictGet(d, k) == IF k \in DOMAIN d THEN d[k] ELSE JNull

\* d[k] = v
DictSet(d, k, v) ==
    [x \in (DOMAIN d) \cup {k} |-> IF x = k THEN v ELSE d[x]]

\* d.pop(k, None)
DictPop(d, k) == [x \in (DOMAIN d) \ {k} |-> d[x]]

-----------------------------------------------------------------------------
(* datetime: calendar dates to epoch seconds.  The process clock is taken  *)
(* to run in UTC, so a naive datetime's timestamp() is its UTC reading.    *)

SecondsPerDay == 24 * 60 * 60

IsLeap(y) == (y % 4 = 0 /\ y % 100 # 0) \/ y % 400 = 0

DaysInMonth(y, m) ==
    CASE m \in {1, 3, 5, 7, 8, 10, 12} -> 31
      [] m \in {4, 6, 9, 11} -> 30
      [] OTHER -> IF IsLeap(y) THEN 29 ELSE 28

\* days between 1970-01-01 and the civil date y-m-d
DaysFromCivil(y, m, d) ==
    LET yy  == IF m <= 2 THEN y - 1 ELSE y
        era == yy \div 400
        yoe == yy - era * 400
        mp  == IF m > 2 THEN m - 3 ELSE m + 9
        doy == (153 * mp + 2) \div 5 + d - 1
        doe == yoe * 365 + yoe \div 4 - yoe \div 100 + doy
    IN  era * 146097 + doe - 719468

\* int(datetime(y, m, d).timestamp()), None when the fields are no date
DateTimestamp(ys, ms, ds) ==
    IF /\ Len(ys) = 4 /\ AllDigits(ys)
       /\ Len(ms) \in {1, 2} /\ AllDigits(ms)
       /\ Len(ds) \in {1, 2} /\ AllDigits(ds)
    THEN LET y == DigitsToInt(ys)
             m == DigitsToInt(ms)
             d == DigitsToInt(ds)
         IN  IF y >= 1 /\ m \in 1..12 /\ d >= 1 /\ d <= DaysInMonth(y, m)
             THEN JNum(DaysFromCivil(y, m, d) * SecondsPerDay)
             ELSE JNull
    ELSE JNull

\* datetime.fromisoformat(s) for the date-only form YYYY-MM-DD
FromIsoFormat(s) ==
    IF Len(s) = 10 /\ Char(s, 5) = "-" /\ Char(s, 8) = "-"
    THEN DateTimestamp(SubSeq(s, 1, 4), SubSeq(s, 6, 7), SubSeq(s, 9, 10))
    ELSE JNull

FullMonths == <<"january", "february", "march", "april", "may", "june", "july",
                "august", "september", "october", "november", "december">>
AbbrMonths == <<"jan", "feb", "mar", "apr", "may", "jun", "jul",
                "aug", "sep", "oct", "nov", "dec">>

MonthIndex(names, w) ==
    IF \E i \in 1..12 : names[i] = Lower(w)
    THEN CHOOSE i \in 1..12 : names[i] = Lower(w)
    ELSE 0

\* the words of s when s has no leading or trailing blank, <<>> otherwise
Words(s) ==
    LET parts == Split(s, " ") IN
    IF parts[1] = "" \/ parts[Len(parts)] = "" THEN <<>>
    ELSE SelectSeq(parts, LAMBDA w : w # "")

\* datetime.strptime(s, fmt) for the four formats of _parse_relative_date
Strptime(s, fmt) ==
    CASE fmt \in {"%B %Y", "%b %Y"} ->
            LET w == Words(s) IN
            IF Len(w) # 2 THEN JNull
            ELSE LET m == MonthIndex(IF fmt = "%B %Y" THEN FullMonths
                                     ELSE AbbrMonths, w[1])
                 IN  IF m = 0 THEN JNull
                     ELSE DateTimestamp(w[2], IF m = 10 THEN "10"
                                              ELSE IF m = 11 THEN "11"
                                              ELSE IF m = 12 THEN "12"
                                              ELSE SubSeq("123456789", m, m),
                                        "1")
      [] fmt = "%Y-%m-%d" ->
            LET f == Split(s, "-") IN
            IF Len(f) # 3 THEN JNull ELSE DateTimestamp(f[1], f[2], f[3])
      [] fmt = "%m/%d/%Y" ->
            LET f == Split(s, "/") IN
            IF Len(f) # 3 THEN JNull ELSE DateTimestamp(f[3], f[1], f[2])

DateFormats == <<"%B %Y", "%b %Y", "%Y-%m-%d", "%m/%d/%Y">>

\* the for loop over DateFormats: the first format that parses wins
RECURSIVE TryFormats(_, _)
TryFormats(s, i) ==
    IF i > Len(DateFormats) THEN JNull
    ELSE IF Strptime(s, DateFormats[i]) # JNull THEN Strptime(s, DateFormats[i])
    ELSE TryFormats(s, i + 1)

AbsoluteDate(s) ==
    IF FromIsoFormat(s) # JNull THEN FromIsoFormat(s) ELSE TryFormats(s, 1)

\* the branch passing the number to timedelta(days=...) whatever the unit
LastUnitsAsDays(date_lower, clock, unit_days) ==
    LET digits == FilterDigits(date_lower) IN
    IF Len(digits) = 0 THEN JNull
    ELSE JNum(clock - DigitsToInt(digits) * SecondsPerDay)

\* the "last N <unit>" branch: JNull when int('') raises and is passed over
LastUnits(date_lower, clock, unit_days) ==
    LET digits == FilterDigits(date_lower) IN
    IF Len(digits) = 0 THEN JNull
    ELSE JNum(clock - DigitsToInt(digits) * unit_days * SecondsPerDay)

\* GeminiQueryParser._parse_relative_date for a str argument
ParseRelativeDate(date_string, clock) ==
    IF Len(date_string) = 0 \/ date_string = "null" THEN JNull
    ELSE
    LET date_lower == Lower(date_string)
        rel == IF ~Contains(date_lower, "last") THEN JNull
               ELSE IF Contains(date_lower, "day")
                    THEN LastUnits(date_lower, clock, 1)
               ELSE IF Contains(date_lower, "week")
                    THEN LastUnits(date_lower, clock, 7)
               ELSE IF Contains(date_lower, "month")
                    THEN LastUnits(date_lower, clock, 30)
               ELSE JNull
    IN  IF Contains(date_lower, "recent")
        THEN JNum(clock - 30 * SecondsPerDay)
        ELSE IF rel # JNull THEN rel
        ELSE AbsoluteDate(date_string)

-----------------------------------------------------------------------------
(* GeminiQueryParser: what a backend can answer *)

NoResult == [t |-> "none"]

Queries == {"", "civil engineer with AutoCAD", "recent marketing manager"}
Clocks  == {1760000000, 1762214400}

\* the keys of "filters" the prompt asks the backend for, application_date aside
PromptFilterKeys ==
    {"min_experience", "max_experience", "location", "education_level",
     "required_skills", "seniority_keywords", "desired_job_titles",
     "target_companies"}

ListFilterKeys ==
    {"required_skills", "seniority_keywords", "desired_job_titles",
     "target_companies"}

Absent == [t |-> "absent"]

\* values a backend can put under application_date (Absent: key left out)
DateAnswers ==
    {Absent, JNull, JStr("recent"), JStr("last 30 days"), JStr("last month"),
     JStr("2025-01-15"), JStr("1970-01-01"), JStr("sometime soon"), JNum(30)}

\* values a backend can put under required_skills
SkillAnswers ==
    {JNull, JList(<<>>), JList(<<JStr("Python"), JStr("Django")>>),
     JList(<<JNum(3)>>)}

FilterShapes == {"prompt", "with_min_date", "extra_key"}

BackendFilters(date, skills, shape) ==
    LET keys == PromptFilterKeys
                \cup (IF date = Absent THEN {} ELSE {"application_date"})
                \cup (IF shape = "with_min_date" THEN {"min_date_applied"} ELSE {})
                \cup (IF shape = "extra_key" THEN {"remote_ok"} ELSE {})
    IN  JObj([k \in keys |->
                CASE k = "application_date" -> date
                  [] k = "required_skills"  -> skills
                  [] k = "remote_ok"        -> JBool(TRUE)
                  [] OTHER                  -> JNull])

FilterAnswers ==
    {BackendFilters(d, s, h) : d \in DateAnswers, s \in SkillAnswers,
                               h \in FilterShapes}
    \cup {JNull, JList(<<JStr("AutoCAD")>>), JStr("none")}

Intent == JStr("civil engineer with AutoCAD experience")

\* JSON documents a backend can return
Documents ==
    {JObj([k \in {"search_intent", "filters"} |->
             IF k = "search_intent" THEN Intent ELSE f]) : f \in FilterAnswers}
    \cup {JObj([k \in {"filters"} |-> BackendFilters(JNull, JNull, "prompt")]),
          JObj([k \in {"search_intent"} |-> Intent]),
          JObj([k \in {"search_intent", "filters", "fallback_used", "api_used"} |->
                  CASE k = "search_intent" -> Intent
                    [] k = "filters" -> BackendFilters(JNull, JNull, "with_min_date")
                    [] k = "fallback_used" -> JBool(TRUE)
                    [] OTHER -> JStr("openai")]),
          JNull, JNum(42),
          JList(<<JStr("search_intent"), JStr("filters")>>),
          JStr("search_intent and filters")}

Garbage == [json |-> FALSE]
Json(doc) == [json |-> TRUE, doc |-> doc]

\* the text of a response: an optional markdown fence around a body
Texts ==
    {[fence |-> "none", body |-> b] : b \in {Json(d) : d \in Documents} \cup {Garbage}}
    \cup {[fence |-> f, body |-> b] :
            f \in {"plain", "json"},
            b \in {Garbage, Json(JNull),
                   Json(JObj([k \in {"search_intent", "filters"} |->
                          IF k = "search_intent" THEN Intent
                          ELSE BackendFilters(JStr("recent"), JNull, "prompt")]))}}

BackendErrors == {"timeout", "rate_limit", "auth"}

Responses ==
    {[kind |-> "error", err |-> e] : e \in BackendErrors}
    \cup {[kind |-> "no_text"]}
    \cup {[kind |-> "text", text |-> t] : t \in Texts}

-----------------------------------------------------------------------------
(* GeminiQueryParser: the parse pipeline *)

\* _build_prompt: the fixed instructions around the quoted query
BuildPrompt(q) == "Extract structured search parameters from: \"" \o q \o "\""

Ok(parsed)      == [ok |-> TRUE, parsed |-> parsed]
Fail(exc, stage) == [ok |-> FALSE, exc |-> exc, stage |-> stage]

\* the text json.loads sees on the Gemini path: a leading fence is cut off
GeminiStripFence(text) == text.body

\* the text json.loads sees on the OpenAI path: the content as it is
OpenAIRawText(text) == IF text.fence = "none" THEN text.body ELSE Garbage

\* ', '.join(v) for a truthy v
Joinable(v) ==
    CASE v.t = "list" -> \A i \in 1..Len(v.l) : v.l[i].t = "str"
      [] v.t = "str"  -> TRUE
      [] v.t = "obj"  -> TRUE
      [] OTHER        -> FALSE

\* the application_date block: convert to min_date_applied, drop the string
ConvertApplicationDate(filters, clock) ==
    LET date_str == DictGet(filters, "application_date") IN
    IF ~Truthy(date_str) THEN filters
    ELSE LET timestamp == ParseRelativeDate(date_str.s, clock)
             stamped   == IF Truthy(timestamp)
                          THEN DictSet(filters, "min_date_applied", timestamp)
                          ELSE filters
         IN  DictPop(stamped, "application_date")

\* _process_parsed_filters (and its inline twin on the Gemini path)
ProcessParsedFilters(parsed, clock) ==
    LET f == parsed["filters"] IN
    IF f.t # "obj" THEN Fail("AttributeError", "postprocess")
    ELSE IF \E k \in ListFilterKeys :
               Truthy(DictGet(f.o, k)) /\ ~Joinable(DictGet(f.o, k))
    THEN Fail("TypeError", "postprocess")
    ELSE IF Truthy(DictGet(f.o, "application_date"))
            /\ DictGet(f.o, "application_date").t # "str"
    THEN Fail("AttributeError", "postprocess")
    ELSE Ok([parsed EXCEPT !["filters"] = JObj(ConvertApplicationDate(f.o, clock))])

\* 'search_intent' not in parsed or 'filters' not in parsed, then the two
\* item assignments that mark the backend
ValidateAndMark(doc, api, fallback) ==
    LET has(k) == CASE doc.t = "obj"  -> k \in DOMAIN doc.o
                    [] doc.t = "list" -> \E i \in 1..Len(doc.l) : doc.l[i] = JStr(k)
                    [] doc.t = "str"  -> Contains(doc.s, k)
                    [] OTHER          -> FALSE
    IN  IF doc.t \in {"null", "num", "bool"} THEN Fail("TypeError", "validate")
        ELSE IF ~has("search_intent") \/ ~has("filters")
        THEN Fail("ValueError", "validate")
        ELSE IF doc.t # "obj" THEN Fail("TypeError", "validate")
        ELSE Ok(DictSet(DictSet(doc.o, "api_used", JStr(api)),
                        "fallback_used", JBool(fallback)))

\* call, extract the text, json.loads, validate
Decode(resp, body_of, api, fallback) ==
    IF resp.kind = "error" THEN Fail(resp.err, "call")
    ELSE IF resp.kind = "no_text" THEN Fail("AttributeError", "call")
    ELSE LET body == body_of
         IN  IF ~body.json THEN Fail("JSONDecodeError", "decode")
             ELSE ValidateAndMark(body.doc, api, fallback)

\* the body of the outer try block of parse
GeminiAttempt(resp, clock) ==
    LET d == Decode(resp, IF resp.kind = "text" THEN GeminiStripFence(resp.text)
                          ELSE Garbage, "gemini", FALSE)
    IN  IF d.ok THEN ProcessParsedFilters(d.parsed, clock) ELSE d

\* _parse_with_openai
ParseWithOpenAI(resp) ==
    Decode(resp, IF resp.kind = "text" THEN OpenAIRawText(resp.text)
                 ELSE Garbage, "openai", TRUE)

\* the body of the inner try block of either except clause
OpenAIAttempt(resp, clock) ==
    LET d == ParseWithOpenAI(resp)
    IN  IF d.ok THEN ProcessParsedFilters(d.parsed, clock) ELSE d

DocumentedFilterKeys == PromptFilterKeys \cup {"min_date_applied"}

\* the last resort normalising the query text and not flagging the fallback
EmptyFiltersResponseUnflagged(q) ==
    [k \in {"search_intent", "filters", "api_used", "fallback_used",
            "fallback_reason"} |->
        CASE k = "search_intent"   -> JStr(Lower(q))
          [] k = "filters"         -> JObj([f \in DocumentedFilterKeys |-> JNull])
          [] k = "api_used"        -> JStr("none")
          [] k = "fallback_used"   -> JBool(FALSE)
          [] k = "fallback_reason" -> JStr("Both Gemini and OpenAI failed")]

\* _empty_filters_response
EmptyFiltersResponse(q) ==
    [k \in {"search_intent", "filters", "api_used", "fallback_used",
            "fallback_reason"} |->
        CASE k = "search_intent"   -> JStr(q)
          [] k = "filters"         -> JObj([f \in DocumentedFilterKeys |-> JNull])
          [] k = "api_used"        -> JStr("none")
          [] k = "fallback_used"   -> JBool(TRUE)
          [] k = "fallback_reason" -> JStr("Both Gemini and OpenAI failed")]

Call(backend, prompt) == [backend |-> backend, prompt |-> prompt]

\* a retry loop of three attempts around the Gemini call
PrimaryCallsRetried(q) ==
    <<Call("gemini", BuildPrompt(q)), Call("gemini", BuildPrompt(q)),
      Call("gemini", BuildPrompt(q))>>

\* the one generate_content call of the outer try block
PrimaryCalls(q) == <<Call("gemini", BuildPrompt(q))>>

\* the fallback sending the bare query instead of the prompt
SecondaryCallsBareQuery(q) == <<Call("openai", q)>>

\* the one chat.completions.create call of _parse_with_openai
SecondaryCalls(q) == <<Call("openai", BuildPrompt(q))>>

Returns(value) == [value |-> value, raised |-> FALSE]
Raises         == [value |-> NoResult, raised |-> TRUE]

\* the fallback with the filter processing moved out of the inner try block
FallbackOutcomeUnguarded(attempt, q) ==
    IF attempt.ok THEN Returns(JObj(attempt.parsed))
    ELSE IF attempt.stage = "postprocess" THEN Raises
    ELSE Returns(JObj(EmptyFiltersResponse(q)))

\* what either except clause does once the fallback answered
FallbackOutcome(attempt, q) ==
    IF attempt.ok THEN Returns(JObj(attempt.parsed))
    ELSE Returns(JObj(EmptyFiltersResponse(q)))

\* which except clause catches a failed primary attempt
HandlerOf(attempt) ==
    IF attempt.exc = "JSONDecodeError" THEN "json_decode_error" ELSE "exception"

-----------------------------------------------------------------------------
(* GeminiQueryParser.parse as a state machine: one step per backend answer *)

NoFailure == [stage |-> "none", exc |-> "none"]
FailureOf(attempt) ==
    IF attempt.ok THEN NoFailure ELSE [stage |-> attempt.stage, exc |-> attempt.exc]

SearchIdle ==
    /\ spc = "idle"
    /\ parsed_query = NoResult
    /\ limit = 0
    /\ enable_reranking = FALSE
    /\ facet_results = <<>>
    /\ all_results = <<>>
    /\ returned = <<>>
    /\ embed_calls = <<>>
    /\ embed_failed = FALSE
    /\ query_vector = NoResult
    /\ query_filter = NoResult
    /\ store_calls = <<>>
    /\ facet_failed = "none"
    /\ search_raised = FALSE

ParserIdle ==
    /\ pc = "idle"
    /\ natural_query = ""
    /\ now = 0
    /\ calls = <<>>
    /\ handler = "none"
    /\ primary_failure = NoFailure
    /\ secondary_failure = NoFailure
    /\ result = NoResult
    /\ raised = FALSE

SkillsIdle ==
    /\ sm_candidate_skills = NoResult
    /\ sm_required_skills = NoResult
    /\ sm_score = NoResult

FilterIdle ==
    /\ bf_filters = NoResult
    /\ bf_result = NoResult

\* MAX_RETRIES of Config when the environment does not set it
DefaultMaxRetries == 3

EmbedderCallIdle ==
    /\ es_pc = "idle"
    /\ es_text = ""
    /\ es_use_fallback = FALSE
    /\ es_sent = ""
    /\ es_attempt = 0
    /\ es_calls = <<>>
    /\ es_sleeps = <<>>
    /\ es_result = NoResult
    /\ fallback_active = FALSE

EmbedderIdle ==
    /\ max_retries = DefaultMaxRetries
    /\ EmbedderCallIdle

ExplainIdle ==
    /\ ex_candidate = NoResult
    /\ ex_parsed_query = NoResult
    /\ ex_outputs = <<>>

DatesIdle ==
    /\ rd_expr = NoResult
    /\ rd_clock = 0
    /\ rd_outcome = NoResult

ApiIdle ==
    /\ api_request = NoResult
    /\ api_response = NoResult

ConcurrentIdle ==
    /\ cc_calls = NoResult
    /\ cc_results = NoResult

FurtherIdle == DatesIdle /\ ApiIdle /\ ConcurrentIdle

\* __init__: the OpenAI client exists iff OPENAI_API_KEY is set
InitParser ==
    /\ openai_client \in BOOLEAN
    /\ ParserIdle
    /\ SearchIdle
    /\ SkillsIdle
    /\ FilterIdle
    /\ EmbedderIdle
    /\ ExplainIdle
    /\ FurtherIdle

\* parse(natural_query) builds the prompt and calls Gemini
ParseStart(q, clock) ==
    /\ pc = "idle"
    /\ pc' = "gemini"
    /\ natural_query' = q
    /\ now' = clock
    /\ calls' = PrimaryCalls(q)
    /\ UNCHANGED <<openai_client, handler, primary_failure, secondary_failure,
                   result, raised, searchVars, utilityVars>>

\* Gemini answers; the rest of the outer try block runs, then on failure
\* the matching except clause up to its OpenAI call or its last resort
GeminiResponds(resp) ==
    /\ pc = "gemini"
    /\ LET a == GeminiAttempt(resp, now) IN
       IF a.ok
       THEN /\ result' = JObj(a.parsed)
            /\ pc' = "done"
            /\ UNCHANGED <<calls, handler, primary_failure>>
       ELSE /\ handler' = HandlerOf(a)
            /\ primary_failure' = FailureOf(a)
            /\ IF openai_client
               THEN /\ calls' = calls \o SecondaryCalls(natural_query)
                    /\ pc' = "openai"
                    /\ UNCHANGED result
               ELSE /\ result' = JObj(EmptyFiltersResponse(natural_query))
                    /\ pc' = "done"
                    /\ UNCHANGED calls
    /\ UNCHANGED <<natural_query, openai_client, now, secondary_failure, raised,
                   searchVars, utilityVars>>

\* OpenAI answers; the rest of the inner try block runs, then its except
\* clause and the last resort
OpenAIResponds(resp) ==
    /\ pc = "openai"
    /\ LET a == OpenAIAttempt(resp, now)
           o == FallbackOutcome(a, natural_query)
       IN  /\ result' = o.value
           /\ raised' = o.raised
           /\ secondary_failure' = FailureOf(a)
    /\ pc' = "done"
    /\ UNCHANGED <<natural_query, openai_client, now, calls, handler,
                   primary_failure, searchVars, utilityVars>>

NextParser ==
    \/ \E q \in Queries, clock \in Clocks : ParseStart(q, clock)
    \/ \E resp \in Responses : GeminiResponds(resp)
    \/ \E resp \in Responses : OpenAIResponds(resp)

SpecParser == InitParser /\ [][NextParser]_vars

-----------------------------------------------------------------------------
(* Properties of GeminiQueryParser.parse *)

Returned == pc = "done" /\ ~raised

BackendsCalled == {calls[i].backend : i \in 1..Len(calls)}

CallsTo(backend) == {i \in 1..Len(calls) : calls[i].backend = backend}

PrimarySucceeded == Returned /\ primary_failure = NoFailure

\* every backend that was tried failed
EveryBackendFailed ==
    /\ Returned
    /\ primary_failure # NoFailure
    /\ openai_client => secondary_failure # NoFailure

\* C1: parse never lets an exception escape, and whatever the two backends
\* do (succeed, raise, answer non-JSON, leave out a required key, answer a
\* "filters" that is no object) it returns a dict holding search_intent and
\* filters.
C1_ParseNeverRaises ==
    /\ ~raised
    /\ pc = "done" =>
          /\ result.t = "obj"
          /\ {"search_intent", "filters"} \subseteq DOMAIN result.o

\* both backends answered JSON whose "filters" is no object, and parse
\* still returned
C1_Witness ==
    /\ Returned
    /\ primary_failure = [stage |-> "postprocess", exc |-> "AttributeError"]
    /\ secondary_failure = [stage |-> "postprocess", exc |-> "AttributeError"]
    /\ result.t = "obj"

\* C2 (as claimed): every returned ParsedQuery has exactly the nine
\* documented filter keys, no application_date and no other extra key.
C2_ExactlyNineFilterKeys ==
    Returned =>
        /\ result.o["filters"].t = "obj"
        /\ DOMAIN result.o["filters"].o = DocumentedFilterKeys

\* the fallback order, with `stages` the ways a primary attempt may have
\* failed before the secondary is called
FallbackOrderAfter(stages) ==
    /\ pc # "idle" =>
          /\ Len(calls) >= 1
          /\ calls[1] = Call("gemini", BuildPrompt(natural_query))
    /\ \A i \in CallsTo("openai") :
          /\ i = Len(calls)
          /\ \E j \in 1..(i - 1) : calls[j].backend = "gemini"
          /\ openai_client
          /\ primary_failure.stage \in stages
    /\ PrimarySucceeded =>
          /\ "openai" \notin BackendsCalled
          /\ result.o["api_used"] = JStr("gemini")
    /\ (Returned /\ result.o["api_used"] = JStr("none")) =>
          /\ primary_failure # NoFailure
          /\ \/ ~openai_client /\ "openai" \notin BackendsCalled
             \/ "openai" \in BackendsCalled /\ secondary_failure # NoFailure
    /\ \A i, j \in 1..Len(calls) : calls[i].prompt = calls[j].prompt

\* C3 (as claimed): the primary backend is called first; the secondary is
\* called only after the primary attempt failed by a backend exception, by
\* invalid JSON or by a missing required key; the degraded result is
\* returned only after both failed or the secondary is not configured; a
\* successful primary parse never calls the secondary; both get the same
\* prompt.
C3_FallbackOnlyOnListedFailures ==
    FallbackOrderAfter({"call", "decode", "validate"})

\* C3 (amended): as claimed, except that the primary attempt also counts as
\* failed, and the secondary is called, when an exception is raised while
\* post-processing a response that passed the required-key check (a
\* "filters" that is no object, a list filter holding a non-string, an
\* application_date that is no string).
C3_FallbackOrder ==
    FallbackOrderAfter({"call", "decode", "validate", "postprocess"})

\* the secondary was called after the primary's answer passed the key check
\* and its post-processing raised, and the secondary produced the result
C3_Witness ==
    /\ Returned
    /\ primary_failure.stage = "postprocess"
    /\ Len(calls) = 2
    /\ calls[2] = Call("openai", BuildPrompt(natural_query))
    /\ result.o["api_used"] = JStr("openai")

\* C4: when every backend fails the degraded response is returned:
\* search_intent is the query text unchanged, every filter is null,
\* api_used is 'none' and fallback_used is true; and fallback_used is false
\* exactly when the primary backend produced the result.
C4_DegradedResponse ==
    Returned =>
        /\ EveryBackendFailed =>
              /\ result.o["search_intent"] = JStr(natural_query)
              /\ result.o["filters"].t = "obj"
              /\ \A k \in DOMAIN result.o["filters"].o :
                    result.o["filters"].o[k] = JNull
              /\ result.o["api_used"] = JStr("none")
              /\ result.o["fallback_used"] = JBool(TRUE)
        /\ result.o["fallback_used"] = JBool(FALSE) <=> PrimarySucceeded

\* both backends failed on a query with capital letters
C4_Witness ==
    /\ EveryBackendFailed
    /\ openai_client
    /\ natural_query = "civil engineer with AutoCAD"
    /\ result.o["search_intent"] = JStr("civil engineer with AutoCAD")
    /\ result.o["api_used"] = JStr("none")

\* C5 (as claimed): the secondary backend is not called until the primary
\* has been attempted 3 times.
C5_ThreeAttemptsBeforeFallback ==
    "openai" \in BackendsCalled => Cardinality(CallsTo("gemini")) = 3

\* C5 (amended): a backend error is not retried: each backend is called at
\* most once per parse call, and the secondary is called right after the
\* primary's single failed attempt.
C5_NoRetry ==
    /\ pc # "idle" => Cardinality(CallsTo("gemini")) = 1
    /\ Cardinality(CallsTo("openai")) <= 1
    /\ (pc # "idle" /\ primary_failure # NoFailure /\ openai_client) =>
          calls = <<Call("gemini", BuildPrompt(natural_query)),
                    Call("openai", BuildPrompt(natural_query))>>

\* the primary timed out once and the secondary has been called
C5_Witness ==
    /\ pc = "openai"
    /\ primary_failure = [stage |-> "call", exc |-> "timeout"]
    /\ Len(calls) = 2

-----------------------------------------------------------------------------
(* Scores: exact rationals n/d with d > 0 *)

RECURSIVE Gcd(_, _)
Gcd(a, b) == IF b = 0 THEN a ELSE Gcd(b, a % b)

\* n/d in lowest terms (n >= 0, d > 0)
Rat(n, d)  == [n |-> n \div Gcd(n, d), d |-> d \div Gcd(n, d)]
RAdd(a, b) == Rat(a.n * b.d + b.n * a.d, a.d * b.d)
RMul(a, b) == Rat(a.n * b.n, a.d * b.d)
REq(a, b)  == a.n * b.d = b.n * a.d
RLeq(a, b) == a.n * b.d <= b.n * a.d
RLt(a, b)  == a.n * b.d < b.n * a.d
RZero      == Rat(0, 1)

-----------------------------------------------------------------------------
(* IntelligentSearchEngine._build_filter: the predicate tree it compiles.  *)
(* Numbers are whole years and whole seconds, so float() and int() of a    *)
(* number keep its value.                                                  *)

\* FieldCondition(key=..., range=Range(gte=...)) or Range(lte=...)
FieldRange(key, op, n) ==
    [node |-> "field", key |-> key, op |-> op, value |-> JNum(n)]

\* FieldCondition(key=..., match=MatchValue(value=...))
FieldMatchValue(key, v) ==
    [node |-> "field", key |-> key, op |-> "match_value", value |-> v]

\* FieldCondition(key=..., match=MatchText(text=...))
FieldMatchText(key, text) ==
    [node |-> "field", key |-> key, op |-> "match_text", value |-> JStr(text)]

\* Filter(should=[...]) and Filter(must=[...])
FilterShould(conditions) ==
    [node |-> "filter", clause |-> "should", conditions |-> conditions]
FilterMust(conditions) ==
    [node |-> "filter", clause |-> "must", conditions |-> conditions]

\* float(v) and int(v): the number, or an exception for what is no number
PyNumber(v) ==
    CASE v.t = "num"  -> Returns(v.n)
      [] v.t = "bool" -> Returns(IF v.b THEN 1 ELSE 0)
      [] v.t = "str"  -> IF Len(v.s) > 0 /\ AllDigits(v.s)
                         THEN Returns(DigitsToInt(v.s)) ELSE Raises
      [] OTHER        -> Raises

\* a range condition for a bound that `is not None`; <<>> for None
RangeCondition(filters, name, key, op) ==
    LET bound == DictGet(filters, name) IN
    IF bound = JNull THEN Returns(<<>>)
    ELSE IF PyNumber(bound).raised THEN Raises
    ELSE Returns(<<FieldRange(key, op, PyNumber(bound).value)>>)

\* the range tests written as truthiness tests: a bound of 0 is dropped
BoundConditionsTruthy(filters, min_name, max_name, key) ==
    LET lo == IF Truthy(DictGet(filters, min_name))
              THEN RangeCondition(filters, min_name, key, "gte")
              ELSE Returns(<<>>)
        hi == IF Truthy(DictGet(filters, max_name))
              THEN RangeCondition(filters, max_name, key, "lte")
              ELSE Returns(<<>>)
    IN  IF lo.raised \/ hi.raised THEN Raises
        ELSE Returns(lo.value \o hi.value)

\* the two `is not None` blocks of a min/max pair (experience, date applied)
BoundConditions(filters, min_name, max_name, key) ==
    LET lo == RangeCondition(filters, min_name, key, "gte")
        hi == RangeCondition(filters, max_name, key, "lte")
    IN  IF lo.raised THEN Raises
        ELSE IF hi.raised THEN Raises
        ELSE Returns(lo.value \o hi.value)

\* the exact-match block of location and of education_level
ExactConditions(filters, name) ==
    IF Truthy(DictGet(filters, name))
    THEN <<FieldMatchValue(name, DictGet(filters, name))>>
    ELSE <<>>

\* `for x in v`: the strings a list of str or a str iterates over
IterStrings(v) ==
    CASE v.t = "list" -> [i \in 1..Len(v.l) |-> v.l[i].s]
      [] v.t = "str"  -> [i \in 1..Len(v.s) |-> Char(v.s, i)]

\* MatchText(text=x) accepts x only if it is a str
IterableOfStrings(v) ==
    CASE v.t = "list" -> \A i \in 1..Len(v.l) : v.l[i].t = "str"
      [] v.t = "str"  -> TRUE
      [] OTHER        -> FALSE

\* the job title block with every list wrapped in should, also a list of one
JobTitleConditionsAlwaysWrapped(filters) ==
    LET titles == DictGet(filters, "desired_job_titles") IN
    IF ~Truthy(titles) THEN Returns(<<>>)
    ELSE IF ~IterableOfStrings(titles) THEN Raises
    ELSE Returns(<<FilterShould(
             [i \in 1..Len(IterStrings(titles)) |->
                 FieldMatchText("job_title", IterStrings(titles)[i])])>>)

\* the job title block: one MatchText per title, a should group for two
\* titles or more
JobTitleConditions(filters) ==
    LET titles == DictGet(filters, "desired_job_titles") IN
    IF ~Truthy(titles) THEN Returns(<<>>)
    ELSE IF ~IterableOfStrings(titles) THEN Raises
    ELSE LET job_title_conditions ==
                 [i \in 1..Len(IterStrings(titles)) |->
                     FieldMatchText("job_title", IterStrings(titles)[i])]
         IN  IF Len(job_title_conditions) = 1
             THEN Returns(<<job_title_conditions[1]>>)
             ELSE Returns(<<FilterShould(job_title_conditions)>>)

\* the company block looking at company_names only
CompanyConditionsPastOnly(filters) ==
    LET companies == DictGet(filters, "target_companies") IN
    IF ~Truthy(companies) THEN Returns(<<>>)
    ELSE IF ~IterableOfStrings(companies) THEN Raises
    ELSE Returns(<<FilterShould(
             [i \in 1..Len(IterStrings(companies)) |->
                 FieldMatchText("company_names", IterStrings(companies)[i])])>>)

\* the company block: per company one MatchText on company_names and one
\* on current_company, all of them in one should group
CompanyConditions(filters) ==
    LET companies == DictGet(filters, "target_companies") IN
    IF ~Truthy(companies) THEN Returns(<<>>)
    ELSE IF ~IterableOfStrings(companies) THEN Raises
    ELSE LET names == IterStrings(companies)
             company_conditions ==
                 [i \in 1..(2 * Len(names)) |->
                     IF i % 2 = 1
                     THEN FieldMatchText("company_names", names[(i + 1) \div 2])
                     ELSE FieldMatchText("current_company", names[i \div 2])]
         IN  Returns(<<FilterShould(company_conditions)>>)

\* the last lines with the `if not conditions` test left out
FilterOfAlwaysMust(conditions) == FilterMust(conditions)

\* `if not conditions: return None`, else Filter(must=conditions)
FilterOf(conditions) ==
    IF Len(conditions) = 0 THEN JNull ELSE FilterMust(conditions)

\* _build_filter(filters)
BuildFilter(filters) ==
    LET experience == BoundConditions(filters, "min_experience",
                                      "max_experience", "total_years_experience")
        dates      == BoundConditions(filters, "min_date_applied",
                                      "max_date_applied", "date_applied")
        titles     == JobTitleConditions(filters)
        companies  == CompanyConditions(filters)
    IN  IF experience.raised \/ dates.raised \/ titles.raised \/ companies.raised
        THEN Raises
        ELSE Returns(FilterOf(experience.value
                              \o ExactConditions(filters, "location")
                              \o ExactConditions(filters, "education_level")
                              \o dates.value
                              \o titles.value
                              \o companies.value))

-----------------------------------------------------------------------------
(* The vector store's reading of a predicate against a point's payload *)

\* fields create_payload_indexes.py gives a full-text index
TextIndexed == {"job_title", "company_names"}

\* s with every comma turned into a blank
RECURSIVE CommasToBlanks(_)
CommasToBlanks(s) ==
    IF Len(s) = 0 THEN ""
    ELSE (IF Char(s, 1) = "," THEN " " ELSE Char(s, 1))
         \o CommasToBlanks(SubSeq(s, 2, Len(s)))

\* the lowercased words of s
Tokens(s) ==
    LET parts == Split(CommasToBlanks(Lower(s)), " ")
    IN  {parts[i] : i \in {j \in 1..Len(parts) : parts[j] # ""}}

\* MatchText: with a full-text index every word of the text must be a word
\* of the stored value; without one the text must be a substring of it
TextMatches(key, stored, text) ==
    /\ stored.t = "str"
    /\ IF key \in TextIndexed THEN Tokens(text) \subseteq Tokens(stored.s)
       ELSE Contains(stored.s, text)

\* whether a payload satisfies a condition or a nested filter
RECURSIVE Satisfies(_, _)
Satisfies(payload, c) ==
    IF c.node = "filter"
    THEN IF c.clause = "must"
         THEN \A i \in 1..Len(c.conditions) : Satisfies(payload, c.conditions[i])
         ELSE \E i \in 1..Len(c.conditions) : Satisfies(payload, c.conditions[i])
    ELSE LET stored == DictGet(payload, c.key) IN
         CASE c.op = "gte" -> stored.t = "num" /\ stored.n >= c.value.n
           [] c.op = "lte" -> stored.t = "num" /\ stored.n <= c.value.n
           [] c.op = "match_value" -> stored = c.value
           [] c.op = "match_text"  -> TextMatches(c.key, stored, c.value.s)

\* query_filter=None searches every point
Passes(payload, predicate) ==
    IF predicate = JNull THEN TRUE ELSE Satisfies(payload, predicate)

-----------------------------------------------------------------------------
(* IntelligentSearchEngine: the collection and what the store can answer *)

MaxLimit  == 2      \* largest limit passed to search
NumPoints == 2      \* points of the collection that can match a query

PointIds == 1..NumPoints

\* the payload stored with a point (skills_extracted and location may be
\* text, null or not stored at all)
PayloadOf(id) ==
    CASE id = 1 -> [k \in {"full_name", "location", "skills_extracted"} |->
                       CASE k = "full_name" -> JStr("Ana")
                         [] k = "location"  -> JStr("Cebu")
                         [] OTHER           -> JNull]
      [] id = 2 -> [k \in {"full_name", "location", "skills_extracted"} |->
                       CASE k = "full_name" -> JStr("Ben")
                         [] k = "location"  -> JStr("Manila")
                         [] OTHER           -> JStr("PYTHON, django, SQL")]
      [] id = 3 -> [k \in {"full_name", "location", "skills_extracted"} |->
                       CASE k = "full_name" -> JStr("Cy")
                         [] k = "location"  -> JStr("Manila")
                         [] OTHER           -> JStr("python")]
      [] OTHER  -> [k \in {"full_name", "skills_extracted"} |->
                       IF k = "full_name" THEN JStr("Di") ELSE JNull]

\* the similarity of a point's facet vector to the query vector, in
\* tenths; the resume of an even point is below the 0.3 score_threshold
SimilarityOf(vector_name, id) ==
    CASE vector_name = "resume" ->
            Rat(IF id % 2 = 1 THEN 9 ELSE 2, 10)
      [] vector_name = "skills" ->
            Rat(IF id <= 2 THEN 7 ELSE 4, 10)
      [] vector_name = "tasks"  ->
            Rat(IF id = 2 THEN 8 ELSE 5, 10)

Hit(vector_name, id) ==
    [id |-> id, score |-> SimilarityOf(vector_name, id), payload |-> PayloadOf(id)]

\* one answer of client.search: at most `most` hits, no point twice, every
\* point passing the predicate and no less similar than `floor`, in
\* non-increasing order of similarity (points of equal similarity in either
\* order); which of the passing points make the cut is left open
HitLists(vector_name, most, predicate, floor) ==
    LET passing == {id \in PointIds :
                       /\ Passes(PayloadOf(id), predicate)
                       /\ RLeq(floor, SimilarityOf(vector_name, id))} IN
    UNION {
      {h \in [1..len -> {Hit(vector_name, id) : id \in passing}] :
          /\ \A i, j \in 1..len : i # j => h[i].id # h[j].id
          /\ \A i \in 1..(len - 1) : RLeq(h[i + 1].score, h[i].score)}
      : len \in 0..(IF most < NumPoints THEN most ELSE NumPoints)}

\* the "filters" of the parsed queries search is called with
SearchFilters ==
    {[f \in DocumentedFilterKeys |->
         CASE f = "required_skills" -> v[1]
           [] f = "location"        -> v[2]
           [] f = "min_experience"  -> v[3]
           [] OTHER                 -> JNull] :
       v \in {<<JNull, JNull, JNull>>,
              <<JList(<<>>), JNull, JNull>>,
              <<JList(<<JStr("Python"), JStr("Django")>>), JNull, JNull>>,
              <<JList(<<JStr("Python"), JStr("Django")>>), JStr("Manila"), JNull>>,
              <<JNull, JNull, JStr("senior")>>}}

\* the degraded parse of the empty query string
EmptyQueryParsed == EmptyFiltersResponse("")

ParsedQueries ==
    {[k \in {"search_intent", "filters"} |->
         IF k = "search_intent" THEN Intent ELSE JObj(f)] : f \in SearchFilters}
    \cup {[k \in {"search_intent", "filters"} |-> EmptyQueryParsed[k]]}

\* what embed_content can answer
QueryEmbedding == <<3, 1, 4>>

EmbedResponses ==
    {[kind |-> "error", err |-> e] : e \in {"timeout", "invalid_argument"}}
    \cup {[kind |-> "no_embeddings"]}
    \cup {[kind |-> "ok", values |-> QueryEmbedding]}

-----------------------------------------------------------------------------
(* IntelligentSearchEngine.search *)

\* WEIGHTS, in the order the dict is iterated
FacetOrder == <<"resume", "skills", "tasks">>

\* WEIGHTS with the skills and tasks weights exchanged
WeightSwapped(vector_name) ==
    CASE vector_name = "resume" -> Rat(5, 10)
      [] vector_name = "skills" -> Rat(2, 10)
      [] vector_name = "tasks"  -> Rat(3, 10)

Weight(vector_name) ==
    CASE vector_name = "resume" -> Rat(5, 10)
      [] vector_name = "skills" -> Rat(3, 10)
      [] vector_name = "tasks"  -> Rat(2, 10)

\* position of point_id in the merge dictionary, 0 if it is no key
IndexOf(results, point_id) ==
    IF \E i \in 1..Len(results) : results[i].id = point_id
    THEN CHOOSE i \in 1..Len(results) : results[i].id = point_id
    ELSE 0

\* one pass of the inner loop with `=` in place of `+=`
MergeHitOverwrite(results, vector_name, hit) ==
    LET weighted_score == RMul(hit.score, Weight(vector_name))
        i == IndexOf(results, hit.id)
    IN  IF i = 0
        THEN Append(results,
                    [id |-> hit.id,
                     semantic_score |-> weighted_score,
                     vector_scores |-> [v \in {vector_name} |-> hit.score],
                     payload |-> hit.payload])
        ELSE [results EXCEPT
                ![i].semantic_score = weighted_score,
                ![i].vector_scores = DictSet(@, vector_name, hit.score)]

\* one pass of the inner loop: merge one hit by point id
MergeHit(results, vector_name, hit) ==
    LET weighted_score == RMul(hit.score, Weight(vector_name))
        i == IndexOf(results, hit.id)
    IN  IF i = 0
        THEN Append(results,
                    [id |-> hit.id,
                     semantic_score |-> weighted_score,
                     vector_scores |-> [v \in {vector_name} |-> hit.score],
                     payload |-> hit.payload])
        ELSE [results EXCEPT
                ![i].semantic_score = RAdd(@, weighted_score),
                ![i].vector_scores = DictSet(@, vector_name, hit.score)]

\* the inner loop over one facet's hits
RECURSIVE MergeFacet(_, _, _)
MergeFacet(results, vector_name, hits) ==
    IF Len(hits) = 0 THEN results
    ELSE MergeFacet(MergeHit(results, vector_name, Head(hits)),
                    vector_name, Tail(hits))

\* the skills match without the two lower() calls
CalculateSkillsMatchCaseSensitive(candidate_skills, required_skills) ==
    IF ~Truthy(required_skills) \/ ~Truthy(candidate_skills) THEN RZero
    ELSE LET matched == Cardinality(
                 {i \in 1..Len(required_skills.l) :
                     Contains(candidate_skills.s, required_skills.l[i].s)})
         IN  Rat(matched, Len(required_skills.l))

\* _calculate_skills_match(candidate_skills, required_skills)
CalculateSkillsMatch(candidate_skills, required_skills) ==
    IF ~Truthy(required_skills) \/ ~Truthy(candidate_skills) THEN RZero
    ELSE LET candidate_skills_lower == Lower(candidate_skills.s)
             matched == Cardinality(
                 {i \in 1..Len(required_skills.l) :
                     Contains(candidate_skills_lower,
                              Lower(required_skills.l[i].s))})
         IN  Rat(matched, Len(required_skills.l))

\* payload.get('skills_extracted', '')
SkillsText(payload) ==
    IF "skills_extracted" \in DOMAIN payload THEN payload["skills_extracted"]
    ELSE JStr("")

\* the combined score with the two blend factors exchanged
CombinedScoreSwapped(semantic_score, skills_match) ==
    RAdd(RMul(semantic_score, Rat(3, 10)), RMul(skills_match, Rat(7, 10)))

\* semantic_score * 0.7 + skills_match * 0.3
CombinedScore(semantic_score, skills_match) ==
    RAdd(RMul(semantic_score, Rat(7, 10)), RMul(skills_match, Rat(3, 10)))

\* the re-ranking test without the enable_reranking flag
ShouldRerankIgnoringFlag(rerank, filters) ==
    Truthy(DictGet(filters, "required_skills"))

\* enable_reranking and filters.get('required_skills')
ShouldRerank(rerank, filters) ==
    rerank /\ Truthy(DictGet(filters, "required_skills"))

\* the scoring loop of step 4, either branch
Score(candidate, rerank, filters) ==
    IF ShouldRerank(rerank, filters)
    THEN LET skills_match ==
                CalculateSkillsMatch(SkillsText(candidate.payload),
                                     filters["required_skills"])
         IN  [id |-> candidate.id,
              semantic_score |-> candidate.semantic_score,
              vector_scores |-> candidate.vector_scores,
              payload |-> candidate.payload,
              skills_match_score |-> skills_match,
              final_score |-> CombinedScore(candidate.semantic_score, skills_match)]
    ELSE [id |-> candidate.id,
          semantic_score |-> candidate.semantic_score,
          vector_scores |-> candidate.vector_scores,
          payload |-> candidate.payload,
          skills_match_score |-> RZero,
          final_score |-> candidate.semantic_score]

\* an insertion that puts x ahead of the elements with an equal key
RECURSIVE InsertAheadOfEqual(_, _)
InsertAheadOfEqual(sorted, x) ==
    IF Len(sorted) = 0 THEN <<x>>
    ELSE IF RLeq(Head(sorted).final_score, x.final_score) THEN <<x>> \o sorted
    ELSE <<Head(sorted)>> \o InsertAheadOfEqual(Tail(sorted), x)

\* list.sort keeps the order of equal keys, also with reverse=True: x goes
\* behind every element whose key is not smaller
RECURSIVE InsertByFinalScore(_, _)
InsertByFinalScore(sorted, x) ==
    IF Len(sorted) = 0 THEN <<x>>
    ELSE IF RLt(Head(sorted).final_score, x.final_score) THEN <<x>> \o sorted
    ELSE <<Head(sorted)>> \o InsertByFinalScore(Tail(sorted), x)

\* candidates.sort(key=lambda x: x['final_score'], reverse=True)
RECURSIVE SortByFinalScore(_)
SortByFinalScore(candidates) ==
    IF Len(candidates) = 0 THEN <<>>
    ELSE InsertByFinalScore(
             SortByFinalScore(SubSeq(candidates, 1, Len(candidates) - 1)),
             candidates[Len(candidates)])

\* the slice taken one element too long
TopCandidatesOffByOne(candidates, lim) ==
    SubSeq(candidates, 1, IF Len(candidates) < lim + 1 THEN Len(candidates)
                          ELSE lim + 1)

\* candidates[:limit] for limit > 0
TopCandidates(candidates, lim) ==
    SubSeq(candidates, 1, IF Len(candidates) < lim THEN Len(candidates) ELSE lim)

\* the merged candidates cut to limit before they are scored and sorted
RankAfterTruncation(results, rerank, filters, lim) ==
    SortByFinalScore([i \in 1..Len(TopCandidates(results, lim)) |->
                         Score(results[i], rerank, filters)])

\* step 4 and the return: score, sort, truncate
Rank(results, rerank, filters, lim) ==
    TopCandidates(
        SortByFinalScore([i \in 1..Len(results) |->
                             Score(results[i], rerank, filters)]),
        lim)

-----------------------------------------------------------------------------
(* IntelligentSearchEngine.search as a state machine: one step per answer *)
(* of the vector store                                                     *)

InitSearch ==
    /\ openai_client = TRUE
    /\ ParserIdle
    /\ SearchIdle
    /\ SkillsIdle
    /\ FilterIdle
    /\ EmbedderIdle
    /\ ExplainIdle
    /\ FurtherIdle

\* _embed_query with a failure of the service answered by an empty vector
EmbedQuerySwallowing(resp) ==
    IF resp.kind = "ok" THEN Returns(resp.values) ELSE Returns(<<>>)

\* _embed_query once embed_content answered: nothing catches what it raises
EmbedQuery(resp) ==
    IF resp.kind = "ok" THEN Returns(resp.values) ELSE Raises

\* score_threshold of every client.search call
ScoreThreshold == Rat(3, 10)

\* the call asking for limit neighbours only
StoreCallNoOverFetch(vector_name, vector, predicate, lim) ==
    [vector_name |-> vector_name, query_vector |-> vector,
     query_filter |-> predicate, limit |-> lim,
     score_threshold |-> ScoreThreshold]

\* the arguments of one client.search call
StoreCall(vector_name, vector, predicate, lim) ==
    [vector_name |-> vector_name, query_vector |-> vector,
     query_filter |-> predicate, limit |-> lim * 2,
     score_threshold |-> ScoreThreshold]

\* the answers the store can give to a call
StoreAnswers(call) ==
    HitLists(call.vector_name, call.limit, call.query_filter,
             call.score_threshold)

\* search(parsed_query, limit, enable_reranking) up to the embed_content
\* call of _embed_query
SearchStart(pq, lim, rerank) ==
    /\ spc = "idle"
    /\ spc' = "embedding"
    /\ parsed_query' = pq
    /\ limit' = lim
    /\ enable_reranking' = rerank
    /\ embed_calls' = <<pq["search_intent"].s>>
    /\ UNCHANGED <<facet_results, all_results, returned, embed_failed,
                   query_vector, query_filter, store_calls, facet_failed,
                   search_raised>>
    /\ UNCHANGED <<parserVars, utilityVars>>

\* embed_content answers; on success the filter is compiled and the first
\* facet query is sent, otherwise the exception leaves search
EmbedResponds(resp) ==
    /\ spc = "embedding"
    /\ embed_failed' = (resp.kind # "ok")
    /\ LET e == EmbedQuery(resp)
           f == BuildFilter(parsed_query["filters"].o)
       IN  IF e.raised
           THEN /\ spc' = "failed"
                /\ search_raised' = TRUE
                /\ UNCHANGED <<query_vector, query_filter, store_calls>>
           ELSE IF f.raised
           THEN /\ spc' = "failed"
                /\ search_raised' = TRUE
                /\ query_vector' = e.value
                /\ UNCHANGED <<query_filter, store_calls>>
           ELSE /\ spc' = "searching"
                /\ query_vector' = e.value
                /\ query_filter' = f.value
                /\ store_calls' = <<StoreCall(FacetOrder[1], e.value, f.value,
                                              limit)>>
                /\ UNCHANGED search_raised
    /\ UNCHANGED <<parsed_query, limit, enable_reranking, facet_results,
                   all_results, returned, embed_calls, facet_failed>>
    /\ UNCHANGED <<parserVars, utilityVars>>

\* the store answers the query of the current facet; its hits are merged,
\* then the next facet is queried, and after the last facet the candidates
\* are scored, sorted and cut to limit
FacetResponds(hits) ==
    /\ spc = "searching"
    /\ LET vector_name == FacetOrder[Len(facet_results) + 1]
           merged      == MergeFacet(all_results, vector_name, hits)
       IN  /\ facet_results' = Append(facet_results, hits)
           /\ all_results' = merged
           /\ IF Len(facet_results) + 1 = Len(FacetOrder)
              THEN /\ returned' = Rank(merged, enable_reranking,
                                       parsed_query["filters"].o, limit)
                   /\ spc' = "done"
                   /\ UNCHANGED store_calls
              ELSE /\ store_calls' =
                          Append(store_calls,
                                 StoreCall(FacetOrder[Len(facet_results) + 2],
                                           query_vector, query_filter, limit))
                   /\ UNCHANGED <<returned, spc>>
    /\ UNCHANGED <<parsed_query, limit, enable_reranking, embed_calls,
                   embed_failed, query_vector, query_filter, facet_failed,
                   search_raised>>
    /\ UNCHANGED <<parserVars, utilityVars>>

\* client.search raises for the current facet: no try block encloses the
\* call, so the exception leaves search
FacetFails ==
    /\ spc = "searching"
    /\ facet_failed' = FacetOrder[Len(facet_results) + 1]
    /\ spc' = "failed"
    /\ search_raised' = TRUE
    /\ UNCHANGED <<parsed_query, limit, enable_reranking, facet_results,
                   all_results, returned, embed_calls, embed_failed,
                   query_vector, query_filter, store_calls>>
    /\ UNCHANGED <<parserVars, utilityVars>>

NextSearch ==
    \/ \E pq \in ParsedQueries, lim \in 1..MaxLimit, rerank \in BOOLEAN :
          SearchStart(pq, lim, rerank)
    \/ \E resp \in EmbedResponses : EmbedResponds(resp)
    \/ /\ spc = "searching"
       /\ \E hits \in StoreAnswers(store_calls[Len(store_calls)]) :
             FacetResponds(hits)
    \/ FacetFails

SpecSearch == InitSearch /\ [][NextSearch]_vars

-----------------------------------------------------------------------------
(* Properties of IntelligentSearchEngine.search *)

SearchDone == spc = "done"

RequiredSkills == parsed_query["filters"].o["required_skills"]

\* positions of the facets whose answer held the point
FacetsHit(id) ==
    {k \in 1..Len(facet_results) :
        \E j \in 1..Len(facet_results[k]) : facet_results[k][j].id = id}

\* the similarity the facet at position k reported for the point
SimilarityIn(k, id) ==
    LET j == CHOOSE j \in 1..Len(facet_results[k]) : facet_results[k][j].id = id
    IN  facet_results[k][j].score

\* facet_similarity * facet_weight for the facet at position k, zero when
\* the facet was not queried yet or did not return the point
Contribution(k, w, id) ==
    IF k \in FacetsHit(id) THEN RMul(SimilarityIn(k, id), w) ELSE RZero

NonIncreasingFinalScore(list) ==
    \A i \in 1..(Len(list) - 1) : RLeq(list[i + 1].final_score, list[i].final_score)

\* C6: the list search returns is never longer than limit and its
\* final_score values never increase along the list.
C6_LengthAndOrder ==
    SearchDone =>
        /\ Len(returned) <= limit
        /\ NonIncreasingFinalScore(returned)

\* more candidates than limit were merged, and the one merged last was
\* sorted to the front and is the one returned
C6_Witness ==
    /\ SearchDone
    /\ limit = 1
    /\ Len(all_results) = 2
    /\ Len(returned) = 1
    /\ returned[1].id = all_results[2].id
    /\ RLt(all_results[1].semantic_score, all_results[2].semantic_score)

\* C7: a candidate's semantic_score is the sum of similarity * weight over
\* exactly the facets whose answer held its id (resume 0.5, skills 0.3,
\* tasks 0.2), a facet without it adds zero, nothing is renormalised, and
\* vector_scores has an entry for exactly the facets hit.
C7_SemanticScoreIsWeightedSum ==
    /\ {all_results[i].id : i \in 1..Len(all_results)}
          = {id \in PointIds : FacetsHit(id) # {}}
    /\ \A i \in 1..Len(all_results) :
          LET c == all_results[i] IN
          /\ REq(c.semantic_score,
                 RAdd(RAdd(Contribution(1, Rat(5, 10), c.id),
                           Contribution(2, Rat(3, 10), c.id)),
                      Contribution(3, Rat(2, 10), c.id)))
          /\ DOMAIN c.vector_scores = {FacetOrder[k] : k \in FacetsHit(c.id)}
          /\ \A k \in FacetsHit(c.id) :
                c.vector_scores[FacetOrder[k]] = SimilarityIn(k, c.id)
    /\ \A i \in 1..Len(returned) :
          \E j \in 1..Len(all_results) :
              /\ all_results[j].id = returned[i].id
              /\ all_results[j].semantic_score = returned[i].semantic_score
              /\ all_results[j].vector_scores = returned[i].vector_scores

\* the tasks facet answered nothing and a returned candidate was hit by the
\* resume and skills facets only: 0.9 * 0.5 + 0.7 * 0.3, not renormalised
C7_Witness ==
    /\ SearchDone
    /\ facet_results[3] = <<>>
    /\ \E i \in 1..Len(returned) :
          /\ DOMAIN returned[i].vector_scores = {"resume", "skills"}
          /\ REq(returned[i].semantic_score, Rat(66, 100))

Permutations3 ==
    {p \in [1..3 -> 1..3] : \A i, j \in 1..3 : i # j => p[i] # p[j]}

\* the merge dictionary built by processing the three answers in order p
RECURSIVE MergedInOrder(_, _)
MergedInOrder(p, n) ==
    IF n = 0 THEN <<>>
    ELSE MergeFacet(MergedInOrder(p, n - 1), FacetOrder[p[n]],
                    facet_results[p[n]])

SemanticScoreIn(results, id) ==
    IF IndexOf(results, id) = 0 THEN Rat(0, 1)
    ELSE results[IndexOf(results, id)].semantic_score

C9_NoRerankFinalIsSemantic ==
    (SearchDone /\ (~enable_reranking \/ ~Truthy(RequiredSkills))) =>
        /\ \A i \in 1..Len(returned) :
              /\ REq(returned[i].final_score, returned[i].semantic_score)
              /\ REq(returned[i].skills_match_score, Rat(0, 1))
        /\ \A i \in 1..(Len(returned) - 1) :
              RLeq(returned[i + 1].semantic_score, returned[i].semantic_score)
        /\ \A j \in 1..Len(all_results) :
              (\A i \in 1..Len(returned) : returned[i].id # all_results[j].id) =>
                  \A i \in 1..Len(returned) :
                      RLeq(all_results[j].semantic_score, returned[i].semantic_score)

\* re-ranking is switched off while skills are required, and a returned
\* candidate's skills text holds the required skills
C9_Witness ==
    /\ SearchDone
    /\ ~enable_reranking
    /\ Truthy(RequiredSkills)
    /\ \E i \in 1..Len(returned) :
          /\ returned[i].id = 2
          /\ returned[i].final_score = returned[i].semantic_score

\* C10: with re-ranking enabled and required_skills non-empty, every
\* candidate's final_score is 0.7 * semantic_score + 0.3 *
\* skills_match_score and the list is sorted again by final_score, highest
\* first.
C10_RerankBlend ==
    (SearchDone /\ enable_reranking /\ Truthy(RequiredSkills)) =>
        /\ \A i \in 1..Len(returned) :
              REq(RMul(Rat(10, 1), returned[i].final_score),
                  RAdd(RMul(Rat(7, 1), returned[i].semantic_score),
                       RMul(Rat(3, 1), returned[i].skills_match_score)))
        /\ NonIncreasingFinalScore(returned)

\* a candidate with the lower semantic score and the higher skills match
\* is returned ahead of one with the higher semantic score
C10_Witness ==
    /\ SearchDone
    /\ enable_reranking
    /\ Truthy(RequiredSkills)
    /\ Len(returned) = 2
    /\ RLt(returned[1].semantic_score, returned[2].semantic_score)
    /\ RLt(returned[2].skills_match_score, returned[1].skills_match_score)
    /\ RLt(returned[2].final_score, returned[1].final_score)

-----------------------------------------------------------------------------
(* IntelligentSearchEngine._calculate_skills_match applied to bounded inputs *)

\* candidate_skills: the skills_extracted of a payload
SkillTexts ==
    {JNull, JStr(""), JStr("Java, Spring Boot"), JStr("PYTHON, django, SQL"),
     JStr("python"), JStr("JavaScript; Python3"), JStr("AutoCAD")}

\* required_skills: the filter of a parsed query
RequiredSkillLists ==
    {JNull, JList(<<>>), JList(<<JStr("Python")>>),
     JList(<<JStr("Python"), JStr("Django")>>),
     JList(<<JStr("python"), JStr("Python")>>),
     JList(<<JStr("Java")>>),
     JList(<<JStr("Java"), JStr("Python"), JStr("SQL")>>),
     JList(<<JStr("AutoCAD"), JStr("Revit")>>),
     JList(<<JStr("Script")>>)}

InitSkills ==
    /\ openai_client = TRUE
    /\ ParserIdle
    /\ SearchIdle
    /\ sm_candidate_skills \in SkillTexts
    /\ sm_required_skills \in RequiredSkillLists
    /\ sm_score = NoResult
    /\ FilterIdle
    /\ EmbedderIdle
    /\ ExplainIdle
    /\ FurtherIdle

CalculateSkillsMatchCall ==
    /\ sm_score = NoResult
    /\ sm_score' = CalculateSkillsMatch(sm_candidate_skills, sm_required_skills)
    /\ UNCHANGED <<sm_candidate_skills, sm_required_skills>>
    /\ UNCHANGED <<parserVars, searchVars, filterVars, embedderVars, explainVars,
                   furtherVars>>

NextSkills == CalculateSkillsMatchCall

SpecSkills == InitSkills /\ [][NextSkills]_vars

\* needle occurs in hay when letter case is ignored
CaseInsensitiveSubstring(needle, hay) ==
    \E i \in 0..(Len(hay) - Len(needle)) :
        \A j \in 1..Len(needle) :
            LowerChar(Char(needle, j)) = LowerChar(Char(hay, i + j))

SkillsScored == sm_score # NoResult

NothingToMatch == ~Truthy(sm_required_skills) \/ ~Truthy(sm_candidate_skills)

\* positions of the required skills found in the candidate's skills text
SkillsPresent ==
    {i \in 1..Len(sm_required_skills.l) :
        CaseInsensitiveSubstring(sm_required_skills.l[i].s,
                                 sm_candidate_skills.s)}

\* C11: the skills-match score is (required skills occurring as
\* case-insensitive substrings of the candidate's skills text) / (required
\* skills), it lies in [0,1], it is 0 when required_skills is empty or null
\* or the skills text is empty or null, and 1 when every required skill is
\* present.
C11_SkillsMatchScore ==
    SkillsScored =>
        /\ RLeq(RZero, sm_score) /\ RLeq(sm_score, Rat(1, 1))
        /\ NothingToMatch => sm_score = RZero
        /\ ~NothingToMatch =>
              /\ sm_score.n * Len(sm_required_skills.l)
                    = Cardinality(SkillsPresent) * sm_score.d
              /\ Cardinality(SkillsPresent) = Len(sm_required_skills.l)
                    => sm_score = Rat(1, 1)

\* one of two required skills occurs, in another letter case, in the text
C11_Witness ==
    /\ SkillsScored
    /\ sm_candidate_skills = JStr("python")
    /\ sm_required_skills = JList(<<JStr("Python"), JStr("Django")>>)
    /\ sm_score = Rat(1, 2)

-----------------------------------------------------------------------------
(* IntelligentSearchEngine._build_filter applied to bounded inputs *)

FilterKeys == DocumentedFilterKeys \cup {"max_date_applied"}

\* filter sets of the shape the parser returns
TypedFilters ==
    {[k \in FilterKeys |->
         CASE k = "min_experience"     -> v[1]
           [] k = "max_experience"     -> v[2]
           [] k = "location"           -> v[3]
           [] k = "education_level"    -> v[4]
           [] k = "min_date_applied"   -> v[5]
           [] k = "max_date_applied"   -> v[6]
           [] k = "desired_job_titles" -> v[7]
           [] k = "target_companies"   -> v[8]
           [] OTHER                    -> JNull] :
       v \in {JNull, JNum(0), JNum(5)}
             \X {JNull, JNum(10)}
             \X {JNull, JStr(""), JStr("Manila")}
             \X {JNull, JStr("Bachelor")}
             \X {JNull, JNum(0), JNum(1700000000)}
             \X {JNull, JNum(1750000000)}
             \X {JNull, JList(<<>>), JList(<<JStr("Engineer")>>),
                 JList(<<JStr("Civil Engineer"), JStr("Architect")>>)}
             \X {JNull, JList(<<>>), JList(<<JStr("Acme")>>),
                 JList(<<JStr("Acme"), JStr("Globex")>>)}}

\* the empty dict, the degraded parser output, a backend answer that kept
\* application_date, skills-only filters, and values of the wrong type
OtherFilters ==
    {[k \in {} |-> JNull],
     EmptyFiltersResponse("civil engineer")["filters"].o,
     BackendFilters(JNull, JNull, "prompt").o,
     BackendFilters(JNull, JList(<<JStr("Python")>>), "prompt").o,
     [k \in FilterKeys |-> IF k = "min_experience" THEN JStr("senior") ELSE JNull],
     [k \in FilterKeys |-> IF k = "max_date_applied" THEN JStr("soon") ELSE JNull],
     [k \in FilterKeys |-> IF k = "desired_job_titles" THEN JList(<<JNum(3)>>)
                           ELSE JNull],
     [k \in FilterKeys |-> IF k = "target_companies" THEN JNum(7) ELSE JNull]}

FilterInputs == TypedFilters \cup OtherFilters

\* a stored payload, by the fields the predicate can test
Applicant(years, location, education, applied, title, names, current) ==
    [k \in {"total_years_experience", "location", "education_level",
            "date_applied", "job_title", "company_names", "current_company"} |->
        CASE k = "total_years_experience" -> years
          [] k = "location"               -> location
          [] k = "education_level"        -> education
          [] k = "date_applied"           -> applied
          [] k = "job_title"              -> title
          [] k = "company_names"          -> names
          [] OTHER                        -> current]

\* past employer Acme, current employer Globex
ApplicantBoth ==
    Applicant(JNum(7), JStr("Manila"), JStr("Bachelor"), JNum(1720000000),
              JStr("Senior Civil Engineer"), JStr("Acme Corp, Initech"),
              JStr("Globex Inc"))

\* Acme is the current employer only
ApplicantCurrentOnly ==
    Applicant(JNum(0), JStr("Cebu"), JStr("Master"), JNull,
              JStr("Architect"), JStr(""), JStr("Acme"))

\* Globex is a past employer only
ApplicantPastOnly ==
    Applicant(JNum(5), JStr("manila"), JStr("Bachelor"), JNum(1700000000),
              JStr("Engineer"), JStr("Globex"), JNull)

ApplicantNeither ==
    Applicant(JNum(10), JStr("Metro Manila"), JNull, JNum(1750000000),
              JNull, JStr("Initech"), JStr("Umbrella"))

ApplicantLate ==
    Applicant(JNum(12), JStr("Manila"), JStr("Bachelor"), JNum(1760000000),
              JStr("Civil Engineer"), JStr("Acme"), JStr("Acme"))

Applicants ==
    {ApplicantBoth, ApplicantCurrentOnly, ApplicantPastOnly, ApplicantNeither,
     ApplicantLate}

InitFilter ==
    /\ openai_client = TRUE
    /\ ParserIdle
    /\ SearchIdle
    /\ SkillsIdle
    /\ bf_filters \in FilterInputs
    /\ bf_result = NoResult
    /\ EmbedderIdle
    /\ ExplainIdle
    /\ FurtherIdle

BuildFilterCall ==
    /\ bf_result = NoResult
    /\ bf_result' = BuildFilter(bf_filters)
    /\ UNCHANGED bf_filters
    /\ UNCHANGED <<parserVars, searchVars, skillsVars, embedderVars, explainVars,
                   furtherVars>>

NextFilter == BuildFilterCall

SpecFilter == InitFilter /\ [][NextFilter]_vars

-----------------------------------------------------------------------------
(* Properties of IntelligentSearchEngine._build_filter *)

\* _build_filter returned a predicate (or None) for bf_filters
FilterBuilt == bf_result # NoResult /\ ~bf_result.raised

\* null, the empty string or the empty list
EmptyValue(v) == v = JNull \/ v = JStr("") \/ v = JList(<<>>)

\* C12: a filter set whose every field is null or empty (the degraded
\* parser output and the empty dict among them) compiles, without an
\* exception, to the null predicate, which lets every record through.
C12_EmptyFiltersGiveNoPredicate ==
    (bf_result # NoResult /\ \A k \in DOMAIN bf_filters : EmptyValue(bf_filters[k])) =>
        /\ bf_result = Returns(JNull)
        /\ \A r \in Applicants : Passes(r, bf_result.value)

\* a filter set with an empty location and empty lists, not only nulls
C12_Witness ==
    /\ FilterBuilt
    /\ bf_result.value = JNull
    /\ DictGet(bf_filters, "location") = JStr("")
    /\ DictGet(bf_filters, "desired_job_titles") = JList(<<>>)
    /\ DictGet(bf_filters, "target_companies") = JList(<<>>)

\* the conditions directly under must
TopConditions ==
    IF bf_result.value = JNull THEN <<>> ELSE bf_result.value.conditions

Bound(name) == DictGet(bf_filters, name)

\* the categories of filter _build_filter reads
RangeCategories ==
    {"min_experience", "max_experience", "min_date_applied", "max_date_applied"}
TruthyCategories ==
    {"location", "education_level", "desired_job_titles", "target_companies"}

Supplied(name) ==
    IF name \in RangeCategories THEN Bound(name) # JNull ELSE Truthy(Bound(name))

\* the record satisfies the category `name` of bf_filters
SatisfiesCategory(r, name) ==
    CASE name = "min_experience" ->
            r["total_years_experience"].t = "num"
            /\ r["total_years_experience"].n >= Bound(name).n
      [] name = "max_experience" ->
            r["total_years_experience"].t = "num"
            /\ r["total_years_experience"].n <= Bound(name).n
      [] name = "min_date_applied" ->
            r["date_applied"].t = "num" /\ r["date_applied"].n >= Bound(name).n
      [] name = "max_date_applied" ->
            r["date_applied"].t = "num" /\ r["date_applied"].n <= Bound(name).n
      [] name \in {"location", "education_level"} ->
            r[name] = Bound(name)
      [] name = "desired_job_titles" ->
            \E i \in 1..Len(Bound(name).l) :
                TextMatches("job_title", r["job_title"], Bound(name).l[i].s)
      [] name = "target_companies" ->
            \E i \in 1..Len(Bound(name).l) :
                \/ TextMatches("current_company", r["current_company"],
                               Bound(name).l[i].s)
                \/ TextMatches("company_names", r["company_names"],
                               Bound(name).l[i].s)

\* C13: the compiled predicate is the AND of one group per supplied
\* category: it holds one top-level condition per supplied category, and a
\* record passes it exactly if it satisfies every supplied category, with
\* min/max experience and min/max application date as inclusive bounds (a
\* bound of 0 counts as supplied) and location and education_level as
\* equality tests.
C13_ConjunctionOfSuppliedCategories ==
    FilterBuilt =>
        /\ Len(TopConditions)
              = Cardinality({c \in RangeCategories \cup TruthyCategories :
                                Supplied(c)})
        /\ bf_result.value # JNull => bf_result.value.clause = "must"
        /\ \A r \in Applicants :
              Passes(r, bf_result.value)
                 <=> \A c \in RangeCategories \cup TruthyCategories :
                        Supplied(c) => SatisfiesCategory(r, c)

\* bounds of 0 are supplied together with a location: the applicant without
\* an application date is kept out by the bound of 0, the applicant whose
\* location differs in letter case by the equality test
C13_Witness ==
    /\ FilterBuilt
    /\ Bound("min_experience") = JNum(0)
    /\ Bound("min_date_applied") = JNum(0)
    /\ Bound("location") = JStr("Manila")
    /\ Bound("max_experience") = JNum(10)
    /\ Len(TopConditions) = 4
    /\ Passes(ApplicantBoth, bf_result.value)
    /\ ~Passes(ApplicantCurrentOnly, bf_result.value)
    /\ ~Passes(ApplicantPastOnly, bf_result.value)
    /\ ~Passes(ApplicantLate, bf_result.value)

\* whether a top-level condition tests only the payload fields `keys`
IsAbout(c, keys) ==
    IF c.node = "field" THEN c.key \in keys
    ELSE \A i \in 1..Len(c.conditions) : c.conditions[i].key \in keys

\* the top-level conditions compiled for a match-any filter
GroupsAbout(keys) == SelectSeq(TopConditions, LAMBDA c : IsAbout(c, keys))

\* the compilation C14 describes for the list filter `name`: an OR-group
\* of one text condition per value for two values or more, the bare text
\* condition for one value
OneConditionPerValue(name, keys) ==
    LET v == Bound(name)
        g == GroupsAbout(keys)
    IN  (v.t = "list" /\ Len(v.l) >= 1) =>
            /\ Len(g) = 1
            /\ Len(v.l) >= 2 =>
                  /\ g[1].node = "filter"
                  /\ g[1].clause = "should"
                  /\ Len(g[1].conditions) = Len(v.l)
                  /\ \A i \in 1..Len(v.l) :
                        /\ g[1].conditions[i].op = "match_text"
                        /\ g[1].conditions[i].value = v.l[i]
            /\ Len(v.l) = 1 =>
                  /\ g[1].node = "field"
                  /\ g[1].op = "match_text"
                  /\ g[1].value = v.l[1]

\* the compilation of target_companies: for one value or more, one OR-group
\* holding for every value a text condition on company_names and a text
\* condition on current_company, and nothing else
TwoConditionsPerCompany ==
    LET v == Bound("target_companies")
        g == GroupsAbout({"company_names", "current_company"})
    IN  (v.t = "list" /\ Len(v.l) >= 1) =>
            /\ Len(g) = 1
            /\ g[1].node = "filter"
            /\ g[1].clause = "should"
            /\ Len(g[1].conditions) = 2 * Len(v.l)
            /\ \A i \in 1..Len(v.l) :
                  /\ g[1].conditions[2 * i - 1]
                        = FieldMatchText("company_names", v.l[i].s)
                  /\ g[1].conditions[2 * i]
                        = FieldMatchText("current_company", v.l[i].s)

\* C14 (as claimed): desired_job_titles and target_companies alike compile
\* to one OR-group with a text condition per value for n >= 2 values and to
\* a single condition without OR wrapper for exactly one value.
C14_MatchAnyCollapses ==
    FilterBuilt =>
        /\ OneConditionPerValue("desired_job_titles", {"job_title"})
        /\ OneConditionPerValue("target_companies",
                                {"company_names", "current_company"})

\* C14 (amended): desired_job_titles compiles as claimed; target_companies
\* with n >= 1 values compiles to one OR-group of 2n text conditions, one
\* on company_names and one on current_company per value, and is wrapped
\* in the OR-group also for a single value.
C14_MatchAnyGroups ==
    FilterBuilt =>
        /\ OneConditionPerValue("desired_job_titles", {"job_title"})
        /\ TwoConditionsPerCompany

\* one job title and one company: the title is a bare condition, the
\* company an OR-group of two
C14_Witness ==
    /\ FilterBuilt
    /\ Bound("desired_job_titles") = JList(<<JStr("Engineer")>>)
    /\ Bound("target_companies") = JList(<<JStr("Acme")>>)
    /\ GroupsAbout({"job_title"}) = <<FieldMatchText("job_title", "Engineer")>>
    /\ Len(GroupsAbout({"company_names", "current_company"})[1].conditions) = 2

\* the group compiled for target_companies
CompanyGroup == GroupsAbout({"company_names", "current_company"})[1]

\* C15: with a target_companies filter a record passes the company group
\* if and only if some target company text-matches its current_company or
\* its company_names; a match in one of the two fields is enough.
C15_CompanyMatchesEitherField ==
    (FilterBuilt /\ Truthy(Bound("target_companies"))) =>
        /\ Len(GroupsAbout({"company_names", "current_company"})) = 1
        /\ \A r \in Applicants :
              Satisfies(r, CompanyGroup)
                 <=> \E i \in 1..Len(Bound("target_companies").l) :
                        \/ TextMatches("current_company", r["current_company"],
                                       Bound("target_companies").l[i].s)
                        \/ TextMatches("company_names", r["company_names"],
                                       Bound("target_companies").l[i].s)

\* one applicant matches a target company in current_company only, another
\* in company_names only, and both pass the group; a third matches neither
C15_Witness ==
    /\ FilterBuilt
    /\ Bound("target_companies") = JList(<<JStr("Acme"), JStr("Globex")>>)
    /\ Satisfies(ApplicantCurrentOnly, CompanyGroup)
    /\ ~TextMatches("company_names", ApplicantCurrentOnly["company_names"], "Acme")
    /\ ~TextMatches("company_names", ApplicantCurrentOnly["company_names"], "Globex")
    /\ Satisfies(ApplicantPastOnly, CompanyGroup)
    /\ ApplicantPastOnly["current_company"] = JNull
    /\ ~Satisfies(ApplicantNeither, CompanyGroup)

-----------------------------------------------------------------------------
(* Failure paths of IntelligentSearchEngine.search *)

SearchIntent == parsed_query["search_intent"].s

\* C16: when embedding the query text fails the search call fails as a
\* whole: the exception reaches the caller, no facet query is sent to the
\* vector store and no candidate list is returned.
C16_EmbeddingFailureIsFatal ==
    embed_failed =>
        /\ spc = "failed"
        /\ search_raised
        /\ store_calls = <<>>
        /\ facet_results = <<>>
        /\ returned = <<>>

\* the embedding of a non-empty search intent failed
C16_Witness ==
    /\ embed_failed
    /\ spc = "failed"
    /\ embed_calls = <<Intent.s>>
    /\ store_calls = <<>>

\* C17 (as claimed): when the vector-store query of one facet raises,
\* search does not fail: the facet counts as having no match, the other
\* facets are queried and the result is ranked and returned.
C17_FacetFailureNotFatal ==
    facet_failed # "none" =>
        /\ ~search_raised
        /\ spc # "failed"

\* C18 (as claimed): search on the parse of the empty query string does not
\* call the embedding service and returns zero candidates without raising.
C18_EmptyQueryShortCircuits ==
    (spc # "idle" /\ SearchIntent = "") =>
        /\ embed_calls = <<>>
        /\ ~search_raised
        /\ SearchDone => returned = <<>>

-----------------------------------------------------------------------------
(* GeminiEmbedder.embed_single *)

\* the length cap of embed_single, in characters
MaxTextChars == 10000

WhitespaceChars == {" ", "\t", "\n", "\r", "\f"}

\* s.strip()
Strip(s) ==
    IF \A i \in 1..Len(s) : Char(s, i) \in WhitespaceChars THEN ""
    ELSE LET first == CHOOSE i \in 1..Len(s) :
                          /\ Char(s, i) \notin WhitespaceChars
                          /\ \A j \in 1..(i - 1) : Char(s, j) \in WhitespaceChars
             last  == CHOOSE i \in 1..Len(s) :
                          /\ Char(s, i) \notin WhitespaceChars
                          /\ \A j \in (i + 1)..Len(s) : Char(s, j) \in WhitespaceChars
         IN  SubSeq(s, first, last)

\* not text or len(text.strip()) == 0
IsBlank(text_arg) == Len(text_arg) = 0 \/ Len(Strip(text_arg)) = 0

\* the length cap left out
TruncateNothing(text_arg) == text_arg

\* if len(text) > 10000: text = text[:10000]
Truncate(text_arg) ==
    IF Len(text_arg) > MaxTextChars THEN SubSeq(text_arg, 1, MaxTextChars)
    ELSE text_arg

\* s * n
RECURSIVE Repeat(_, _)
Repeat(s, n) ==
    IF n = 0 THEN ""
    ELSE LET half == Repeat(s, n \div 2)
         IN  half \o half \o (IF n % 2 = 1 THEN s ELSE "")

\* texts embed_single is called with: empty, blank, short, at the cap, one
\* character over it, and the 15000 characters of test_gemini_embedder
EmbedTexts ==
    {"", " ", " \t\n", "test", " Senior Civil Engineer ",
     Repeat("A", MaxTextChars),
     Repeat("A", MaxTextChars) \o "B",
     Repeat("A", MaxTextChars + MaxTextChars \div 2)}

\* what embed_content can answer to embed_single: an exception, a response
\* without embeddings, an embedding without values, an embedding
EmbedSingleResponses ==
    EmbedResponses \cup {[kind |-> "ok", values |-> <<>>]}

\* what the sentence-transformers fallback can do: raise or encode
FallbackResponses ==
    {[kind |-> "error", err |-> "ImportError"],
     [kind |-> "ok", values |-> <<2, 7>>]}

\* one pass of the try block returning the values without validating them
EmbedAttemptUnvalidated(resp) ==
    IF resp.kind = "ok" THEN Returns(resp.values) ELSE Raises

\* one pass of the try block: the validated values, or the exception the
\* two except clauses catch (EmbeddingResponse wants at least one value)
EmbedAttempt(resp) ==
    IF resp.kind = "ok" /\ Len(resp.values) >= 1 THEN Returns(resp.values)
    ELSE Raises

ServiceCall(service, contents) == [service |-> service, contents |-> contents]

\* 2 ** attempt
RECURSIVE Pow2(_)
Pow2(n) == IF n = 0 THEN 1 ELSE 2 * Pow2(n - 1)

InitEmbedder ==
    /\ openai_client = TRUE
    /\ ParserIdle
    /\ SearchIdle
    /\ SkillsIdle
    /\ FilterIdle
    /\ max_retries \in 0..DefaultMaxRetries
    /\ EmbedderCallIdle
    /\ ExplainIdle
    /\ FurtherIdle

\* embed_single(text, use_fallback_on_error) up to its first external call
EmbedSingleStart(text_arg, use_fallback_on_error) ==
    /\ es_pc = "idle"
    /\ es_text' = text_arg
    /\ es_use_fallback' = use_fallback_on_error
    /\ IF IsBlank(text_arg)
       THEN /\ es_result' = Returns(<<>>)
            /\ es_pc' = "done"
            /\ UNCHANGED <<es_sent, es_calls, fallback_active>>
       ELSE /\ es_sent' = Truncate(text_arg)
            /\ IF max_retries > 0
               THEN /\ es_calls' = <<ServiceCall("gemini", Truncate(text_arg))>>
                    /\ es_pc' = "gemini"
                    /\ UNCHANGED <<es_result, fallback_active>>
               ELSE IF use_fallback_on_error
               THEN /\ es_calls' = <<ServiceCall("fallback", Truncate(text_arg))>>
                    /\ fallback_active' = TRUE
                    /\ es_pc' = "fallback"
                    /\ UNCHANGED es_result
               ELSE /\ es_result' = Returns(<<>>)
                    /\ es_pc' = "done"
                    /\ UNCHANGED <<es_calls, fallback_active>>
    /\ UNCHANGED <<max_retries, es_attempt, es_sleeps>>
    /\ UNCHANGED <<parserVars, searchVars, skillsVars, filterVars, explainVars,
                   furtherVars>>

\* embed_content answers attempt es_attempt: return on success; otherwise
\* sleep unless it was the last attempt, then try again or leave the loop
\* for the fallback
GeminiEmbedResponds(resp) ==
    /\ es_pc = "gemini"
    /\ LET a == EmbedAttempt(resp) IN
       IF ~a.raised
       THEN /\ es_result' = Returns(a.value)
            /\ es_pc' = "done"
            /\ UNCHANGED <<es_attempt, es_calls, es_sleeps, fallback_active>>
       ELSE /\ es_sleeps' = IF es_attempt < max_retries - 1
                            THEN Append(es_sleeps, Pow2(es_attempt))
                            ELSE es_sleeps
            /\ IF es_attempt + 1 < max_retries
               THEN /\ es_attempt' = es_attempt + 1
                    /\ es_calls' = Append(es_calls, ServiceCall("gemini", es_sent))
                    /\ UNCHANGED <<es_pc, es_result, fallback_active>>
               ELSE IF es_use_fallback
               THEN /\ es_calls' = Append(es_calls,
                                          ServiceCall("fallback", es_sent))
                    /\ fallback_active' = TRUE
                    /\ es_pc' = "fallback"
                    /\ UNCHANGED <<es_attempt, es_result>>
               ELSE /\ es_result' = Returns(<<>>)
                    /\ es_pc' = "done"
                    /\ UNCHANGED <<es_attempt, es_calls, fallback_active>>
    /\ UNCHANGED <<max_retries, es_text, es_use_fallback, es_sent>>
    /\ UNCHANGED <<parserVars, searchVars, skillsVars, filterVars, explainVars,
                   furtherVars>>

\* the fallback embedder answers: its vector, or [] when it raised
FallbackResponds(resp) ==
    /\ es_pc = "fallback"
    /\ es_result' = IF resp.kind = "ok" THEN Returns(resp.values)
                    ELSE Returns(<<>>)
    /\ es_pc' = "done"
    /\ UNCHANGED <<max_retries, es_text, es_use_fallback, es_sent, es_attempt,
                   es_calls, es_sleeps, fallback_active>>
    /\ UNCHANGED <<parserVars, searchVars, skillsVars, filterVars, explainVars,
                   furtherVars>>

NextEmbedder ==
    \/ \E text_arg \in EmbedTexts, use_fallback_on_error \in BOOLEAN :
          EmbedSingleStart(text_arg, use_fallback_on_error)
    \/ \E resp \in EmbedSingleResponses : GeminiEmbedResponds(resp)
    \/ \E resp \in FallbackResponses : FallbackResponds(resp)

SpecEmbedder == InitEmbedder /\ [][NextEmbedder]_vars

-----------------------------------------------------------------------------
(* Properties of GeminiEmbedder.embed_single *)

WhitespaceOnly(s) == \A i \in 1..Len(s) : Char(s, i) \in WhitespaceChars

\* the first MaxTextChars characters of s
CappedPrefix(s) ==
    IF Len(s) <= MaxTextChars THEN s ELSE SubSeq(s, 1, MaxTextChars)

\* C19: for empty or whitespace-only text embed_single returns an empty
\* vector without calling the embedding service or the fallback; for any
\* other text every call, to the service and to the fallback embedder
\* alike, carries the first 10,000 characters of the text and nothing more.
C19_BlankShortCircuitAndCap ==
    /\ (es_pc # "idle" /\ WhitespaceOnly(es_text)) =>
          /\ es_pc = "done"
          /\ es_calls = <<>>
          /\ es_result = Returns(<<>>)
    /\ \A i \in 1..Len(es_calls) :
          /\ es_calls[i].contents = CappedPrefix(es_text)
          /\ Len(es_calls[i].contents) <= MaxTextChars

\* a text of 10,001 characters went to the service and to the fallback
\* without its last character
C19_Witness ==
    /\ es_pc = "done"
    /\ es_text = Repeat("A", MaxTextChars) \o "B"
    /\ \E i \in 1..Len(es_calls) :
          /\ es_calls[i].service = "gemini"
          /\ es_calls[i].contents = Repeat("A", MaxTextChars)
    /\ es_calls[Len(es_calls)] = ServiceCall("fallback", Repeat("A", MaxTextChars))

-----------------------------------------------------------------------------
(* MatchExplainer.explain.  An f-string is kept as its mark, its template  *)
(* and the values it interpolates, in order.                               *)

\* payload.get(key, default)
PayloadGet(payload, key, default) ==
    IF key \in DOMAIN payload THEN payload[key] ELSE default

RECURSIVE Pow10(_)
Pow10(n) == IF n = 0 THEN 1 ELSE 10 * Pow10(n - 1)

\* round(x, digits): to the nearest multiple of 10^-digits, a tie to the
\* even one
Round(x, digits) ==
    LET scaled == x.n * Pow10(digits)
        q      == scaled \div x.d
        rem    == scaled % x.d
        up     == 2 * rem > x.d \/ (2 * rem = x.d /\ q % 2 = 1)
    IN  Rat(IF up THEN q + 1 ELSE q, Pow10(digits))

\* default max_length of _get_resume_snippet
SnippetMaxLength == 200

\* _get_resume_snippet(payload)
GetResumeSnippet(payload) ==
    LET resume_text == PayloadGet(payload, "resume_full_text", JStr("")) IN
    IF ~Truthy(resume_text) THEN ""
    ELSE IF Len(resume_text.s) > SnippetMaxLength
    THEN SubSeq(resume_text.s, 1, SnippetMaxLength) \o "..."
    ELSE resume_text.s

MatchReason(mark, template, args) ==
    [mark |-> mark, template |-> template, args |-> args]

AllStrings(v) == v.t = "list" /\ \A i \in 1..Len(v.l) : v.l[i].t = "str"

\* the statements of explain that raise: a comparison, `in`, or lower()
\* meeting a value of the wrong type
ExplainRaises(payload, filters) ==
    LET exp == PayloadGet(payload, "total_years_experience", JNum(0)) IN
    \/ /\ DictGet(filters, "min_experience") # JNull
       /\ exp.t # "num" \/ DictGet(filters, "min_experience").t # "num"
    \/ /\ DictGet(filters, "max_experience") # JNull
       /\ exp.t # "num" \/ DictGet(filters, "max_experience").t # "num"
    \/ /\ Truthy(DictGet(filters, "location"))
       /\ \/ PayloadGet(payload, "location", JStr("")).t # "str"
          \/ DictGet(filters, "location").t # "str"
    \/ /\ Truthy(DictGet(filters, "required_skills"))
       /\ \/ PayloadGet(payload, "skills_extracted", JStr("")).t # "str"
          \/ ~AllStrings(DictGet(filters, "required_skills"))
    \/ /\ Truthy(DictGet(filters, "seniority_keywords"))
       /\ \/ PayloadGet(payload, "job_title", JStr("")).t # "str"
          \/ ~AllStrings(DictGet(filters, "seniority_keywords"))

\* the experience block
ExperienceReasons(payload, filters) ==
    LET exp     == PayloadGet(payload, "total_years_experience", JNum(0))
        min_exp == DictGet(filters, "min_experience")
        max_exp == DictGet(filters, "max_experience")
    IN  (IF min_exp = JNull THEN <<>>
         ELSE IF exp.n >= min_exp.n
         THEN <<MatchReason("check",
                  "{exp:.1f} years experience (exceeds {min_exp}+ requirement by {years_over:.1f} years)",
                  <<exp, min_exp, JNum(exp.n - min_exp.n)>>)>>
         ELSE <<MatchReason("warning",
                  "{exp:.1f} years experience (below {min_exp}+ requirement)",
                  <<exp, min_exp>>)>>)
        \o
        (IF max_exp = JNull THEN <<>>
         ELSE IF exp.n <= max_exp.n
         THEN <<MatchReason("check",
                  "{exp:.1f} years experience (within 0-{max_exp} range)",
                  <<exp, max_exp>>)>>
         ELSE <<MatchReason("warning",
                  "{exp:.1f} years experience (above {max_exp} maximum)",
                  <<exp, max_exp>>)>>)

\* the location block
LocationReasons(payload, filters) ==
    LET location          == PayloadGet(payload, "location", JStr(""))
        required_location == DictGet(filters, "location")
    IN  IF ~Truthy(required_location) THEN <<>>
        ELSE IF Contains(location.s, required_location.s)
        THEN <<MatchReason("check", "Located in {location}", <<location>>)>>
        ELSE <<MatchReason("warning",
                 "Located in {location} (requested: {required_location})",
                 <<location, required_location>>)>>

\* the education block
EducationReasons(payload, filters) ==
    LET education    == PayloadGet(payload, "education_level", JStr(""))
        required_edu == DictGet(filters, "education_level")
    IN  IF ~Truthy(required_edu) THEN <<>>
        ELSE IF education = required_edu
        THEN <<MatchReason("check", "{education} (matches requirement)",
                           <<education>>)>>
        ELSE <<MatchReason("warning", "{education} (requested: {required_edu})",
                           <<education, required_edu>>)>>

\* the skills block
SkillsReasons(payload, filters) ==
    LET required == DictGet(filters, "required_skills") IN
    IF ~Truthy(required) THEN <<>>
    ELSE LET skills_text == Lower(PayloadGet(payload, "skills_extracted",
                                             JStr("")).s)
             matched_skills ==
                 SelectSeq(required.l,
                           LAMBDA skill : Contains(skills_text, Lower(skill.s)))
             missing_skills ==
                 SelectSeq(required.l,
                           LAMBDA skill : ~Contains(skills_text, Lower(skill.s)))
         IN  (IF Len(matched_skills) > 0
              THEN <<MatchReason("check",
                       "Has required skills: {', '.join(matched_skills)}",
                       <<JList(matched_skills)>>)>>
              ELSE <<>>)
             \o
             (IF Len(missing_skills) > 0
              THEN <<MatchReason("warning",
                       "Missing skills: {', '.join(missing_skills)}",
                       <<JList(missing_skills)>>)>>
              ELSE <<>>)

\* the seniority block
SeniorityReasons(payload, filters) ==
    LET keywords == DictGet(filters, "seniority_keywords") IN
    IF ~Truthy(keywords) THEN <<>>
    ELSE LET job_title == Lower(PayloadGet(payload, "job_title", JStr("")).s)
             seniority_found ==
                 SelectSeq(keywords.l,
                           LAMBDA keyword : Contains(job_title, Lower(keyword.s)))
         IN  IF Len(seniority_found) > 0
             THEN <<MatchReason("check",
                      "Seniority level: {', '.join(seniority_found)} position",
                      <<JList(seniority_found)>>)>>
             ELSE <<>>

\* the job title line
JobTitleReasons(payload) ==
    LET job_title == PayloadGet(payload, "job_title", JStr("")) IN
    IF Truthy(job_title)
    THEN <<MatchReason("clipboard", "Current role: {job_title}", <<job_title>>)>>
    ELSE <<>>

\* the semantic match line
SemanticReasons(semantic_score) ==
    IF RLeq(Rat(7, 10), semantic_score)
    THEN <<MatchReason("target",
             "Strong semantic match (score: {semantic_score:.2f})",
             <<semantic_score>>)>>
    ELSE IF RLeq(Rat(5, 10), semantic_score)
    THEN <<MatchReason("target",
             "Good semantic match (score: {semantic_score:.2f})",
             <<semantic_score>>)>>
    ELSE <<MatchReason("target",
             "Moderate semantic match (score: {semantic_score:.2f})",
             <<semantic_score>>)>>

\* the "candidate" entry of the result
CandidateInfo(payload) ==
    [k \in {"id", "name", "email", "job_title", "experience_years",
            "tenure_years", "location", "education", "current_company",
            "current_stage", "resume_url", "date_applied"} |->
        CASE k = "name" -> PayloadGet(payload, "full_name", JNull)
          [] k = "experience_years" ->
                PayloadGet(payload, "total_years_experience", JNum(0))
          [] k = "tenure_years" ->
                PayloadGet(payload, "longest_tenure_years", JNum(0))
          [] k = "education" -> PayloadGet(payload, "education_level", JNull)
          [] OTHER -> PayloadGet(payload, k, JNull)]

\* the "scores" entry of the result
ScoresInfo(candidate) ==
    [final_score        |-> Round(candidate.final_score, 3),
     semantic_score     |-> Round(candidate.semantic_score, 3),
     skills_match_score |-> Round(candidate.skills_match_score, 2),
     vector_breakdown   |->
        [name \in DOMAIN candidate.vector_scores |->
            Round(candidate.vector_scores[name], 3)]]

\* explain(candidate, parsed_query): what it returns or that it raises
Explain(candidate, query) ==
    LET payload == candidate.payload
        filters == query["filters"].o
    IN  IF ExplainRaises(payload, filters) THEN Raises
        ELSE Returns(
            [candidate      |-> CandidateInfo(payload),
             scores         |-> ScoresInfo(candidate),
             match_reasons  |-> ExperienceReasons(payload, filters)
                                \o LocationReasons(payload, filters)
                                \o EducationReasons(payload, filters)
                                \o SkillsReasons(payload, filters)
                                \o SeniorityReasons(payload, filters)
                                \o JobTitleReasons(payload)
                                \o SemanticReasons(candidate.semantic_score),
             resume_snippet |-> GetResumeSnippet(payload)])

\* explain clearing the skills_match_score of the candidate it was given
ExplainEffectClearing(candidate, query) ==
    [outcome      |-> Explain(candidate, query),
     candidate    |-> [candidate EXCEPT !.skills_match_score = RZero],
     parsed_query |-> query]

\* explain with what it leaves behind in its two arguments: it only reads
\* them and builds new dicts and lists
ExplainEffect(candidate, query) ==
    [outcome      |-> Explain(candidate, query),
     candidate    |-> candidate,
     parsed_query |-> query]

-----------------------------------------------------------------------------
(* MatchExplainer.explain called repeatedly on one pair of arguments *)

MaxExplainCalls == 2    \* explain calls made on one (candidate, query) pair

\* a payload with every field explain reads and a resume text over the
\* snippet length
FullPayload ==
    [k \in {"id", "full_name", "email", "job_title", "total_years_experience",
            "longest_tenure_years", "location", "education_level",
            "current_company", "current_stage", "resume_url", "date_applied",
            "skills_extracted", "resume_full_text"} |->
        CASE k = "id"                     -> JStr("a1")
          [] k = "full_name"              -> JStr("Ana Cruz")
          [] k = "email"                  -> JStr("ana@example.com")
          [] k = "job_title"              -> JStr("Senior Civil Engineer")
          [] k = "total_years_experience" -> JNum(7)
          [] k = "longest_tenure_years"   -> JNum(3)
          [] k = "location"               -> JStr("Manila, Philippines")
          [] k = "education_level"        -> JStr("Bachelor")
          [] k = "current_company"        -> JStr("Acme")
          [] k = "current_stage"          -> JStr("Applied")
          [] k = "resume_url"             -> JStr("https://example.com/a1.pdf")
          [] k = "date_applied"           -> JNum(1720000000)
          [] k = "skills_extracted"       -> JStr("AutoCAD, Revit, PYTHON")
          [] OTHER -> JStr(Repeat("Civil engineer. ", 16))]

\* a payload that stores few fields
SparsePayload ==
    [k \in {"full_name", "location", "skills_extracted", "resume_full_text"} |->
        CASE k = "full_name"        -> JStr("Ben")
          [] k = "location"         -> JStr("Manila")
          [] k = "skills_extracted" -> JStr("python")
          [] OTHER                  -> JStr("Short resume.")]

\* a payload that stores null under the text fields
NullPayload ==
    [k \in {"full_name", "job_title", "total_years_experience", "location",
            "education_level", "skills_extracted", "resume_full_text"} |->
        CASE k = "full_name"              -> JStr("Cy")
          [] k = "total_years_experience" -> JNum(2)
          [] OTHER                        -> JNull]

ExplainPayloads == {FullPayload, SparsePayload, NullPayload}

\* candidates as search returns them
ExplainCandidates ==
    {[id |-> 1, semantic_score |-> sc[1], vector_scores |-> sc[2],
      payload |-> p, skills_match_score |-> sc[3], final_score |-> sc[4]] :
        p \in ExplainPayloads,
        sc \in {<<Rat(82, 100),
                  [v \in {"resume", "skills", "tasks"} |->
                      SimilarityOf(v, 2 + (IF v = "resume" THEN 1 ELSE 0))],
                  Rat(1, 2), CombinedScore(Rat(82, 100), Rat(1, 2))>>,
                <<Rat(5, 10), [v \in {"resume"} |-> Rat(10, 10)],
                  RZero, Rat(5, 10)>>,
                <<Rat(12345, 100000), [v \in {"skills"} |-> Rat(4115, 10000)],
                  Rat(1, 3), CombinedScore(Rat(12345, 100000), Rat(1, 3))>>}}

\* parsed queries explain is called with
ExplainFilters ==
    {[f \in DocumentedFilterKeys |->
         CASE f = "min_experience"     -> v[1]
           [] f = "max_experience"     -> v[2]
           [] f = "location"           -> v[3]
           [] f = "education_level"    -> v[4]
           [] f = "required_skills"    -> v[5]
           [] f = "seniority_keywords" -> v[6]
           [] OTHER                    -> JNull] :
       v \in {<<JNull, JNull, JNull, JNull, JNull, JNull>>,
              <<JNum(5), JNull, JStr("Manila"), JNull,
                JList(<<JStr("Python"), JStr("Django")>>),
                JList(<<JStr("Senior")>>)>>,
              <<JNum(0), JNum(5), JNull, JStr("Bachelor"), JNull, JNull>>,
              <<JNull, JNull, JStr("Manila"), JNull, JNull, JNull>>,
              <<JNull, JNull, JNull, JNull, JList(<<JStr("AutoCAD")>>), JNull>>}}

ExplainQueries ==
    {[k \in {"search_intent", "filters"} |->
         IF k = "search_intent" THEN Intent ELSE JObj(f)] : f \in ExplainFilters}

InitExplain ==
    /\ openai_client = TRUE
    /\ ParserIdle
    /\ SearchIdle
    /\ SkillsIdle
    /\ FilterIdle
    /\ EmbedderIdle
    /\ FurtherIdle
    /\ ex_candidate \in ExplainCandidates
    /\ ex_parsed_query \in ExplainQueries
    /\ ex_outputs = <<>>

\* one call explain(ex_candidate, ex_parsed_query)
ExplainCall ==
    /\ Len(ex_outputs) < MaxExplainCalls
    /\ LET e == ExplainEffect(ex_candidate, ex_parsed_query) IN
       /\ ex_outputs' = Append(ex_outputs, e.outcome)
       /\ ex_candidate' = e.candidate
       /\ ex_parsed_query' = e.parsed_query
    /\ UNCHANGED <<parserVars, searchVars, skillsVars, filterVars, embedderVars,
                   furtherVars>>

NextExplain == ExplainCall

SpecExplain == InitExplain /\ [][NextExplain]_vars

-----------------------------------------------------------------------------
(* The location line and the resume preview of an explanation *)

\* the filters of the query explain was called with
ExplainFiltersGiven == ex_parsed_query["filters"].o

\* the explanations returned so far
Explanations ==
    {ex_outputs[i].value : i \in {j \in 1..Len(ex_outputs) : ~ex_outputs[j].raised}}

\* the reasons of an explanation that speak of the location
LocationLines(explanation) ==
    SelectSeq(explanation.match_reasons,
              LAMBDA r : r.template \in
                  {"Located in {location}",
                   "Located in {location} (requested: {required_location})"})

\* C21: with a location filter present, explain marks the location as
\* matched exactly when the candidate's location equals the filter value,
\* and the reason reports the candidate's actual location whether it
\* matched or not.
C21_LocationExactMatch ==
    \A e \in Explanations :
        Truthy(DictGet(ExplainFiltersGiven, "location")) =>
            LET lines == LocationLines(e)
                actual == PayloadGet(ex_candidate.payload, "location", JStr(""))
            IN  /\ Len(lines) = 1
                /\ lines[1].args[1] = actual
                /\ (lines[1].mark = "check") <=>
                       (actual = DictGet(ExplainFiltersGiven, "location"))

\* the resume text explain was given, "" when the payload holds none
ResumeSource ==
    LET stored == PayloadGet(ex_candidate.payload, "resume_full_text", JStr(""))
    IN  IF stored.t = "str" THEN stored.s ELSE ""

TruncationMarker == "..."

\* preview is a prefix of source followed by the truncation marker
MarkedPrefix(preview, source) ==
    \E n \in 0..Len(source) :
        /\ n < Len(source)
        /\ preview = SubSeq(source, 1, n) \o TruncationMarker

\* C22: the resume preview never exceeds 200 characters; for a longer source
\* it is a truncated prefix carrying a truncation marker, for a source
\* within the cap it is the source unchanged, "" when there is no text.
C22_PreviewWithinCap ==
    \A e \in Explanations :
        /\ Len(e.resume_snippet) <= SnippetMaxLength
        /\ Len(ResumeSource) > SnippetMaxLength =>
               MarkedPrefix(e.resume_snippet, ResumeSource)
        /\ Len(ResumeSource) <= SnippetMaxLength =>
               e.resume_snippet = ResumeSource

-----------------------------------------------------------------------------
(* _process_parsed_filters on a backend answer whose application_date is   *)
(* a relative date expression                                              *)

\* numbers as a backend writes them
Numerals == {<<"0", 0>>, <<"1", 1>>, <<"2", 2>>, <<"7", 7>>, <<"30", 30>>,
             <<"90", 90>>, <<"365", 365>>}

\* unit words and the days timedelta gives each
UnitWords == {<<"day", 1>>, <<"days", 1>>, <<"week", 7>>, <<"weeks", 7>>,
              <<"month", 30>>, <<"months", 30>>}

DateExpr(kind, n, unit_days, text) ==
    [kind |-> kind, n |-> n, unit_days |-> unit_days, text |-> text]

\* "last N <unit>" in three phrasings
LastExprs ==
    {DateExpr("last", num[2], u[2], lead \o num[1] \o " " \o u[1]) :
        num \in Numerals, u \in UnitWords,
        lead \in {"last ", "Last ", "in the last "}}

RecentExprs ==
    {DateExpr("recent", 0, 0, t) :
        t \in {"recent", "Recent", "recent applicants", "recently applied"}}

\* expressions that match no pattern and no format
UnparseableExprs ==
    {DateExpr("none", 0, 0, t) :
        t \in {"last month", "last week", "last few days", "last 2 years",
               "sometime soon", "yesterday", "null"}}

DateExprs == LastExprs \cup RecentExprs \cup UnparseableExprs

\* the dict json.loads gave, application_date being the expression
AnswerWithDate(text) ==
    [k \in {"search_intent", "filters"} |->
        IF k = "search_intent" THEN Intent
        ELSE BackendFilters(JStr(text), JNull, "prompt")]

InitDates ==
    /\ openai_client = TRUE
    /\ ParserIdle
    /\ SearchIdle
    /\ SkillsIdle
    /\ FilterIdle
    /\ EmbedderIdle
    /\ ExplainIdle
    /\ ApiIdle
    /\ ConcurrentIdle
    /\ rd_expr \in DateExprs
    /\ rd_clock \in Clocks
    /\ rd_outcome = NoResult

\* one call _process_parsed_filters(parsed) at the instant rd_clock
ProcessParsedFiltersCall ==
    /\ rd_outcome = NoResult
    /\ rd_outcome' = ProcessParsedFilters(AnswerWithDate(rd_expr.text), rd_clock)
    /\ UNCHANGED <<rd_expr, rd_clock>>
    /\ UNCHANGED <<parserVars, searchVars, skillsVars, filterVars, embedderVars,
                   explainVars, apiVars, concurrentVars>>

NextDates == ProcessParsedFiltersCall

SpecDates == InitDates /\ [][NextDates]_vars

DateProcessed == rd_outcome # NoResult

\* filters.get('min_date_applied') after the call
MinDateApplied == DictGet(rd_outcome.parsed["filters"].o, "min_date_applied")

-----------------------------------------------------------------------------
(* search_api.search_candidates: parse, search, explain, respond.  The     *)
(* handler's position is that of the parse call, then of the search call.  *)

\* SearchRequest: query, limit (ge=1), enable_reranking
SearchRequests ==
    [query : {"civil engineer with AutoCAD"},
     limit : 1..MaxLimit,
     enable_reranking : BOOLEAN]

\* what a backend answers to the prompt of a request
ApiBackendResponses ==
    {[kind |-> "error", err |-> "timeout"]}
    \cup {[kind |-> "text",
           text |-> [fence |-> "none",
                     body |-> Json(JObj([k \in {"search_intent", "filters"} |->
                                  IF k = "search_intent" THEN Intent ELSE f]))]] :
            f \in {BackendFilters(JNull,
                                  JList(<<JStr("Python"), JStr("Django")>>),
                                  "prompt"),
                   BackendFilters(JStr("recent"), JNull, "prompt")}}

\* raise HTTPException(status_code=500, detail=f"Search failed: {str(e)}")
HTTPException(status_code, prefix, exc) ==
    [raised |-> TRUE, status_code |-> status_code,
     detail |-> [prefix |-> prefix, exc |-> exc]]

\* explain applied to each search result, in order
ExplainedResults(search_results, query) ==
    [i \in 1..Len(search_results) |-> Explain(search_results[i], query)]

\* the response dict built after the explanation loop
Response(query, parsed, explained_results) ==
    [raised |-> FALSE,
     body |-> [query          |-> query,
               parsed_filters |-> parsed["filters"],
               total_results  |-> Len(explained_results),
               results        |-> explained_results]]

\* the handler taking a search that raised for one without matches
SearchCandidatesSwallowing(request, parsed, search_failed, search_results) ==
    IF search_failed THEN Response(request.query, parsed, <<>>)
    ELSE LET explained == ExplainedResults(search_results, parsed) IN
         IF \E i \in 1..Len(explained) : explained[i].raised
         THEN Response(request.query, parsed, <<>>)
         ELSE Response(request.query, parsed,
                       [i \in 1..Len(explained) |-> explained[i].value])

\* search_candidates from the return of engine.search (or what it raised)
\* to the handler's own return or raise
SearchCandidates(request, parsed, search_failed, search_results) ==
    IF search_failed
    THEN HTTPException(500, "Search failed: ", "search")
    ELSE LET explained == ExplainedResults(search_results, parsed) IN
         IF \E i \in 1..Len(explained) : explained[i].raised
         THEN HTTPException(500, "Search failed: ", "explain")
         ELSE Response(request.query, parsed,
                       [i \in 1..Len(explained) |-> explained[i].value])

InitApi ==
    /\ openai_client \in BOOLEAN
    /\ ParserIdle
    /\ SearchIdle
    /\ SkillsIdle
    /\ FilterIdle
    /\ EmbedderIdle
    /\ ExplainIdle
    /\ DatesIdle
    /\ ConcurrentIdle
    /\ api_request \in SearchRequests
    /\ api_response = NoResult

\* step 1: parser.parse(request.query)
ApiParse(clock) ==
    /\ api_request # NoResult
    /\ ParseStart(api_request.query, clock)

\* step 2: engine.search(parsed_query, limit, enable_reranking)
ApiSearch ==
    /\ api_request # NoResult
    /\ pc = "done"
    /\ SearchStart(result.o, api_request.limit, api_request.enable_reranking)

\* step 3 and the response, or the except clause
ApiRespond ==
    /\ api_request # NoResult
    /\ api_response = NoResult
    /\ spc \in {"done", "failed"}
    /\ api_response' = SearchCandidates(api_request, parsed_query,
                                        search_raised, returned)
    /\ UNCHANGED <<api_request, datesVars, concurrentVars>>
    /\ UNCHANGED <<parserVars, searchVars, skillsVars, filterVars, embedderVars,
                   explainVars>>

NextApi ==
    \/ \E clock \in {1762214400} : ApiParse(clock)
    \/ \E resp \in ApiBackendResponses : GeminiResponds(resp)
    \/ \E resp \in ApiBackendResponses : OpenAIResponds(resp)
    \/ ApiSearch
    \/ \E resp \in EmbedResponses : EmbedResponds(resp)
    \/ /\ spc = "searching"
       /\ \E hits \in StoreAnswers(store_calls[Len(store_calls)]) :
             FacetResponds(hits)
    \/ FacetFails
    \/ ApiRespond

SpecApi == InitApi /\ [][NextApi]_vars

Responded == api_response # NoResult

\* explain raised for one of the candidates search returned
ExplanationFailed ==
    /\ spc = "done"
    /\ \E i \in 1..Len(returned) : Explain(returned[i], parsed_query).raised

\* the three facet queries were answered and nothing matched
ZeroMatches == spc = "done" /\ returned = <<>>

\* C24: at /search a failed search (an exception in search or in the
\* explanation) is answered by an explicit error carrying a reason, a
\* search that succeeds with zero matches by a success with
\* total_results = 0 and an empty results list; an error is answered only
\* to a failure.
C24_FailureDistinctFromEmpty ==
    Responded =>
        /\ (search_raised \/ ExplanationFailed) =>
               /\ api_response.raised
               /\ api_response.status_code = 500
               /\ api_response.detail.prefix = "Search failed: "
        /\ ZeroMatches =>
               /\ ~api_response.raised
               /\ api_response.body.total_results = 0
               /\ api_response.body.results = <<>>
        /\ api_response.raised <=> (search_raised \/ ExplanationFailed)

\* a query whose date filter no stored point passes was answered with a
\* success of zero results
C24_Witness ==
    /\ Responded
    /\ ~api_response.raised
    /\ api_response.body.total_results = 0
    /\ Len(store_calls) = 3
    /\ DictGet(parsed_query["filters"].o, "min_date_applied") # JNull

-----------------------------------------------------------------------------
(* Two /search calls in flight on the shared parser, engine and explainer. *)
(* A call's locals (parsed_query, query_embedding, query_filter,           *)
(* all_results, search_results) live in its own frame; the instances hold  *)
(* only what __init__ assigned.                                            *)

Callers == {1, 2}

\* the frame that holds all_results of a call, were it an attribute of the
\* engine instead of a local
ResultsFrameOnEngine(c) == 1

\* the frame that holds all_results of a call: its own (all_results = {}
\* is a local of search)
ResultsFrame(c) == c

\* the request of each call: they differ in limit and flag
ConcurrentRequest(c) ==
    IF c = 1
    THEN [query |-> "civil engineer with AutoCAD", limit |-> 1,
          enable_reranking |-> TRUE]
    ELSE [query |-> "civil engineer with AutoCAD", limit |-> MaxLimit,
          enable_reranking |-> FALSE]

\* datetime.now() as both calls read it: 2025-11-04 00:00:00 UTC
ConcurrentClock == 1762214400

\* the backends either fail or answer the required skills
ConcurrentBackendResponses ==
    {r \in ApiBackendResponses :
        r.kind = "text" =>
            DictGet(r.text.body.doc.o["filters"].o, "required_skills") # JNull}

ConcurrentEmbedResponses ==
    {r \in EmbedResponses : r.kind = "ok" \/ (r.kind = "error" /\ r.err = "timeout")}

\* the store answering with every passing point the limit allows
FullHitLists(vector_name, most, predicate) ==
    LET lists == HitLists(vector_name, most, predicate, ScoreThreshold) IN
    {h \in lists : \A g \in lists : Len(g) <= Len(h)}

NewCall(request) ==
    [st |-> "received", request |-> request, heard |-> <<>>,
     parsed |-> NoResult, vector |-> NoResult, predicate |-> NoResult,
     answered |-> 0, response |-> NoResult]

InitConcurrent ==
    /\ openai_client = TRUE
    /\ ParserIdle
    /\ SearchIdle
    /\ SkillsIdle
    /\ FilterIdle
    /\ EmbedderIdle
    /\ ExplainIdle
    /\ DatesIdle
    /\ ApiIdle
    /\ cc_calls = [c \in Callers |-> NewCall(ConcurrentRequest(c))]
    /\ cc_results = [c \in Callers |-> <<>>]

ConcurrentRest ==
    UNCHANGED <<parserVars, searchVars, skillsVars, filterVars, embedderVars,
                explainVars, datesVars, apiVars>>

\* the handler of call c reaches the Gemini call of parse
CallParseStart(c) ==
    /\ cc_calls[c].st = "received"
    /\ cc_calls' = [cc_calls EXCEPT ![c].st = "gemini"]
    /\ UNCHANGED cc_results
    /\ ConcurrentRest

\* the rest of search up to the embed_content call, parse having returned
AfterParse(call, parsed) == [call EXCEPT !.parsed = parsed, !.st = "embedding"]

\* Gemini answers call c
CallGeminiResponds(c, resp) ==
    /\ cc_calls[c].st = "gemini"
    /\ LET call == [cc_calls[c] EXCEPT !.heard = Append(@, resp)]
           a    == GeminiAttempt(resp, ConcurrentClock)
       IN  cc_calls' =
             [cc_calls EXCEPT ![c] =
                 IF a.ok THEN AfterParse(call, a.parsed)
                 ELSE IF openai_client THEN [call EXCEPT !.st = "openai"]
                 ELSE AfterParse(call, EmptyFiltersResponse(call.request.query))]
    /\ UNCHANGED cc_results
    /\ ConcurrentRest

\* OpenAI answers call c
CallOpenAIResponds(c, resp) ==
    /\ cc_calls[c].st = "openai"
    /\ LET call == [cc_calls[c] EXCEPT !.heard = Append(@, resp)]
           o    == FallbackOutcome(OpenAIAttempt(resp, ConcurrentClock),
                                   call.request.query)
       IN  cc_calls' = [cc_calls EXCEPT ![c] = AfterParse(call, o.value.o)]
    /\ UNCHANGED cc_results
    /\ ConcurrentRest

\* embed_content answers call c; the filter is compiled, all_results is
\* set to {} and the first facet query is sent
CallEmbedResponds(c, resp) ==
    /\ cc_calls[c].st = "embedding"
    /\ LET call == [cc_calls[c] EXCEPT !.heard = Append(@, resp)]
           e    == EmbedQuery(resp)
           f    == BuildFilter(call.parsed["filters"].o)
       IN  IF e.raised \/ f.raised
           THEN /\ cc_calls' =
                      [cc_calls EXCEPT ![c] =
                          [call EXCEPT !.st = "done",
                                       !.response = SearchCandidates(
                                           call.request, call.parsed, TRUE, <<>>)]]
                /\ UNCHANGED cc_results
           ELSE /\ cc_calls' =
                      [cc_calls EXCEPT ![c] =
                          [call EXCEPT !.st = "searching", !.vector = e.value,
                                       !.predicate = f.value]]
                /\ cc_results' = [cc_results EXCEPT ![ResultsFrame(c)] = <<>>]
    /\ ConcurrentRest

\* the store answers the current facet query of call c; after the last
\* facet the call ranks, explains and responds
CallFacetResponds(c, hits) ==
    /\ cc_calls[c].st = "searching"
    /\ LET call   == [cc_calls[c] EXCEPT
                         !.heard = Append(@, [kind |-> "hits", hits |-> hits]),
                         !.answered = @ + 1]
           merged == MergeFacet(cc_results[ResultsFrame(c)],
                                FacetOrder[cc_calls[c].answered + 1], hits)
       IN  /\ cc_results' = [cc_results EXCEPT ![ResultsFrame(c)] = merged]
           /\ cc_calls' =
                [cc_calls EXCEPT ![c] =
                    IF call.answered < Len(FacetOrder) THEN call
                    ELSE [call EXCEPT
                            !.st = "done",
                            !.response = SearchCandidates(
                                call.request, call.parsed, FALSE,
                                Rank(merged, call.request.enable_reranking,
                                     call.parsed["filters"].o,
                                     call.request.limit))]]
    /\ ConcurrentRest

\* client.search raises for the current facet of call c
CallFacetFails(c) ==
    /\ cc_calls[c].st = "searching"
    /\ cc_calls' =
         [cc_calls EXCEPT ![c] =
             [@ EXCEPT !.heard = Append(@, [kind |-> "store_error"]),
                       !.st = "done",
                       !.response = SearchCandidates(
                           cc_calls[c].request, cc_calls[c].parsed, TRUE, <<>>)]]
    /\ UNCHANGED cc_results
    /\ ConcurrentRest

NextConcurrent ==
    \E c \in Callers :
        \/ CallParseStart(c)
        \/ \E resp \in ConcurrentBackendResponses : CallGeminiResponds(c, resp)
        \/ \E resp \in ConcurrentBackendResponses : CallOpenAIResponds(c, resp)
        \/ \E resp \in ConcurrentEmbedResponses : CallEmbedResponds(c, resp)
        \/ /\ cc_calls[c].st = "searching"
           /\ \E hits \in FullHitLists(FacetOrder[cc_calls[c].answered + 1],
                                       cc_calls[c].request.limit * 2,
                                       cc_calls[c].predicate) :
                 CallFacetResponds(c, hits)
        \/ CallFacetFails(c)

SpecConcurrent == InitConcurrent /\ [][NextConcurrent]_vars

\* what search_candidates answers to a request when it runs alone and the
\* backends, the embedding service and the store give the answers `heard`,
\* in that order
RunAlone(request, heard) ==
    LET q       == request.query
        a       == GeminiAttempt(heard[1], ConcurrentClock)
        second  == ~a.ok /\ openai_client
        parsed  == IF a.ok THEN a.parsed
                   ELSE IF openai_client
                   THEN FallbackOutcome(OpenAIAttempt(heard[2], ConcurrentClock),
                                        q).value.o
                   ELSE EmptyFiltersResponse(q)
        i       == IF second THEN 3 ELSE 2
        e       == EmbedQuery(heard[i])
        f       == BuildFilter(parsed["filters"].o)
        answers == SubSeq(heard, i + 1, Len(heard))
    IN  IF \/ e.raised
           \/ f.raised
           \/ \E j \in 1..Len(answers) : answers[j].kind = "store_error"
        THEN SearchCandidates(request, parsed, TRUE, <<>>)
        ELSE SearchCandidates(
                 request, parsed, FALSE,
                 Rank(MergeFacet(MergeFacet(MergeFacet(<<>>, FacetOrder[1],
                                                       answers[1].hits),
                                            FacetOrder[2], answers[2].hits),
                                 FacetOrder[3], answers[3].hits),
                      request.enable_reranking, parsed["filters"].o,
                      request.limit))

\* C25: calls are request-scoped: whatever the interleaving of two calls
\* on the shared parser, engine and explainer, each call answers what it
\* would answer alone given the same external answers; neither reads
\* anything the other wrote, and the weighted sums use the WEIGHTS the
\* engine was built with.
C25_CallsAreRequestScoped ==
    \A c \in Callers :
        cc_calls[c].st = "done" =>
            cc_calls[c].response = RunAlone(cc_calls[c].request, cc_calls[c].heard)

\* call 1 answered one candidate while call 2, started with another limit
\* and flag, was between two facet queries with candidates merged
C25_Witness ==
    /\ cc_calls[1].st = "done"
    /\ ~cc_calls[1].response.raised
    /\ cc_calls[1].response.body.total_results = 1
    /\ cc_calls[2].st = "searching"
    /\ cc_calls[2].answered = 2
    /\ cc_calls[2].request # cc_calls[1].request
    /\ Len(cc_results[2]) > 0

-----------------------------------------------------------------------------
(* The calls one search makes, and what it keeps of the answers *)

\* C26: one search call embeds search_intent exactly once, then sends
\* exactly three store queries, one per facet in the order resume, skills,
\* tasks, all after the embedding and the filter compilation and all
\* before any ranking; each carries the same query vector and the same
\* compiled predicate, asks for limit * 2 neighbours and a similarity floor
\* of 0.3; no merged candidate has a per-facet score below 0.3 and at most
\* 6 * limit distinct candidates are merged.
C26_OneEmbeddingThreeQueries ==
    /\ spc # "idle" => embed_calls = <<SearchIntent>>
    /\ Len(store_calls) <= Len(FacetOrder)
    /\ \A i \in 1..Len(store_calls) :
          /\ store_calls[i].vector_name = FacetOrder[i]
          /\ store_calls[i].query_vector = query_vector
          /\ store_calls[i].query_filter = query_filter
          /\ store_calls[i].limit = limit * 2
          /\ store_calls[i].score_threshold = Rat(3, 10)
    /\ store_calls # <<>> =>
          /\ ~embed_failed
          /\ query_vector = QueryEmbedding
          /\ query_filter = BuildFilter(parsed_query["filters"].o).value
    /\ SearchDone <=> Len(facet_results) = Len(FacetOrder)
    /\ SearchDone => Len(store_calls) = Len(FacetOrder)
    /\ ~SearchDone => returned = <<>>
    /\ \A i \in 1..Len(all_results) :
          \A v \in DOMAIN all_results[i].vector_scores :
              RLeq(Rat(3, 10), all_results[i].vector_scores[v])
    /\ \A i \in 1..Len(facet_results) : Len(facet_results[i]) <= limit * 2
    /\ Len(all_results) <= 6 * limit

\* a search with a compiled location predicate sent its three queries and
\* merged point 2, whose resume similarity of 0.2 is under the floor, from
\* the skills and tasks answers only
C26_Witness ==
    /\ SearchDone
    /\ Len(store_calls) = 3
    /\ query_filter # [t |-> "none"]
    /\ Len(all_results) = 1
    /\ all_results[1].id = 2
    /\ DOMAIN all_results[1].vector_scores = {"skills", "tasks"}

\* the hits of the three answers in the order the merge loop met them
HitsInOrder ==
    IF Len(facet_results) = 0 THEN <<>>
    ELSE IF Len(facet_results) = 1 THEN facet_results[1]
    ELSE IF Len(facet_results) = 2 THEN facet_results[1] \o facet_results[2]
    ELSE facet_results[1] \o facet_results[2] \o facet_results[3]

\* the position at which the merge loop first met the point
FirstMet(id) ==
    CHOOSE k \in 1..Len(HitsInOrder) :
        /\ HitsInOrder[k].id = id
        /\ \A j \in 1..(k - 1) : HitsInOrder[j].id # id

\* C27: candidates with equal final_score are returned in the order in
\* which their ids were first met during merging (facets in the order
\* resume, skills, tasks, each answer in the store's order), so the list
\* returned is fixed by the parsed query, the limit, the flag and the
\* store's answers.
C27_TiesKeepMergeOrder ==
    SearchDone =>
        /\ \A i, j \in 1..Len(returned) :
              (i < j /\ REq(returned[i].final_score, returned[j].final_score)) =>
                  FirstMet(returned[i].id) < FirstMet(returned[j].id)
        /\ \A i \in 1..Len(returned) : \A j \in 1..Len(all_results) :
              (/\ REq(all_results[j].semantic_score, returned[i].semantic_score)
               /\ \A k \in 1..Len(returned) : returned[k].id # all_results[j].id
               /\ REq(returned[i].final_score, returned[i].semantic_score)) =>
                  FirstMet(returned[i].id) < FirstMet(all_results[j].id)

\* points 2 and 1 were met in that order in the skills answer only, tie at
\* 0.7 * 0.3, and are returned in that order
C27_Witness ==
    /\ SearchDone
    /\ ~enable_reranking
    /\ Len(returned) = 2
    /\ returned[1].id = 2
    /\ returned[2].id = 1
    /\ REq(returned[1].final_score, returned[2].final_score)
    /\ facet_results[2] = <<Hit("skills", 2), Hit("skills", 1)>>

-----------------------------------------------------------------------------
(* The retry loop of GeminiEmbedder.embed_single *)

CallsToService(service) ==
    Cardinality({i \in 1..Len(es_calls) : es_calls[i].service = service})

EmbedDone == es_pc = "done"

\* every attempt the service was given has failed
RetriesExhausted ==
    /\ CallsToService("gemini") = max_retries
    /\ es_pc \in {"fallback", "done"}
    /\ EmbedDone => es_result.value # QueryEmbedding

\* attempts known to have failed
FailedAttempts ==
    IF RetriesExhausted THEN max_retries
    ELSE IF CallsToService("gemini") = 0 THEN 0
    ELSE CallsToService("gemini") - 1

\* C28: embed_single ends and never raises; for non-empty text it calls
\* the service at most max_retries times, returns the vector of the first
\* validated answer without a further call, sleeps 2^attempt seconds after
\* each failed attempt but the last, and after max_retries failures
\* returns the fallback's vector when use_fallback_on_error is set (the
\* empty vector if the fallback fails too) and the empty vector otherwise;
\* the fallback is not called before the retries are exhausted.
C28_RetryThenFallback ==
    /\ es_pc \in {"idle", "gemini", "fallback", "done"}
    /\ EmbedDone => ~es_result.raised
    /\ CallsToService("gemini") <= max_retries
    /\ CallsToService("fallback") <= 1
    /\ es_pc = "gemini" =>
          /\ es_attempt < max_retries
          /\ CallsToService("gemini") = es_attempt + 1
          /\ es_calls[Len(es_calls)].service = "gemini"
    /\ es_pc = "fallback" => es_calls[Len(es_calls)].service = "fallback"
    /\ \A i \in 1..Len(es_calls) :
          es_calls[i].service = "fallback" =>
              /\ i = Len(es_calls)
              /\ es_use_fallback
              /\ i = max_retries + 1
    /\ Len(es_sleeps) =
          (IF FailedAttempts < max_retries THEN FailedAttempts
           ELSE IF max_retries = 0 THEN 0 ELSE max_retries - 1)
    /\ \A k \in 1..Len(es_sleeps) : es_sleeps[k] = 2 ^ (k - 1)
    /\ (EmbedDone /\ ~WhitespaceOnly(es_text)) =>
          IF RetriesExhausted
          THEN IF es_use_fallback
               THEN /\ CallsToService("fallback") = 1
                    /\ es_result.value \in
                          {r.values : r \in {f \in FallbackResponses :
                                                f.kind = "ok"}} \cup {<<>>}
               ELSE /\ CallsToService("fallback") = 0
                    /\ es_result.value = <<>>
          ELSE /\ es_result.value = QueryEmbedding
               /\ CallsToService("fallback") = 0
               /\ es_calls[Len(es_calls)].service = "gemini"

\* three attempts failed, embed_single slept 1 and 2 seconds, called the
\* fallback and returned its vector
C28_Witness ==
    /\ EmbedDone
    /\ max_retries = 3
    /\ CallsToService("gemini") = 3
    /\ es_sleeps = <<1, 2>>
    /\ Len(es_calls) = 4
    /\ es_calls[4].service = "fallback"
    /\ es_result.value = <<2, 7>>

-----------------------------------------------------------------------------
(* explain applied to what search returned, at /search *)

\* the number of skills the explanation reports as matched
ReportedMatched(explanation) ==
    LET lines == {i \in 1..Len(explanation.match_reasons) :
                     explanation.match_reasons[i].template =
                         "Has required skills: {', '.join(matched_skills)}"}
    IN  IF lines = {} THEN 0
        ELSE Len(explanation.match_reasons[CHOOSE i \in lines : TRUE].args[1].l)

\* re-ranking was applied to the results of the search
RerankingApplied ==
    ShouldRerank(enable_reranking, parsed_query["filters"].o)

\* the explanation's matched skills over the required ones is the
\* skills_match_score the re-ranking gave the candidate
SkillsRatioAgrees(candidate) ==
    LET explained == Explain(candidate, parsed_query) IN
    (RerankingApplied /\ ~explained.raised) =>
        REq(Rat(ReportedMatched(explained.value),
                Len(parsed_query["filters"].o["required_skills"].l)),
            candidate.skills_match_score)

\* C29: explain returns without raising for every candidate search
\* returned for the parsed query, a null skills_extracted, job_title or
\* location under a present filter included, and where re-ranking was
\* applied the matched skills it reports over the required skills equal
\* the candidate's skills_match_score.
C29_ExplainTotalOnReturned ==
    spc = "done" =>
        \A i \in 1..Len(returned) :
            /\ ~Explain(returned[i], parsed_query).raised
            /\ SkillsRatioAgrees(returned[i])

-----------------------------------------------------------------------------
(* The cut to limit comes after scoring and sorting *)

\* the merged candidates with the scores step 4 gives them
ScoredCandidates ==
    {Score(all_results[i], enable_reranking, parsed_query["filters"].o) :
        i \in 1..Len(all_results)}

ReturnedCandidates == {returned[i] : i \in 1..Len(returned)}

\* C30: the list search returns holds the limit candidates of highest
\* final_score among all the candidates merged from the facet answers (at
\* most 6 * limit of them), all of them when there are fewer, so that
\* under re-ranking a candidate outside the first limit by semantic score
\* can be returned in place of one inside it.
C30_TruncationAfterSorting ==
    SearchDone =>
        /\ Len(all_results) <= 6 * limit
        /\ Len(returned) =
              (IF Len(all_results) < limit THEN Len(all_results) ELSE limit)
        /\ Cardinality(ReturnedCandidates) = Len(returned)
        /\ ReturnedCandidates \subseteq ScoredCandidates
        /\ \A out \in ScoredCandidates \ ReturnedCandidates :
              \A kept \in ReturnedCandidates :
                  RLeq(out.final_score, kept.final_score)

\* limit 1 with re-ranking: the candidate returned has a lower semantic
\* score than one that was left out
C30_Witness ==
    /\ SearchDone
    /\ enable_reranking
    /\ limit = 1
    /\ Len(returned) = 1
    /\ \E out \in ScoredCandidates \ ReturnedCandidates :
          /\ RLt(returned[1].semantic_score, out.semantic_score)
          /\ RLt(out.final_score, returned[1].final_score)

====
